---- MODULE Spec2Model ----
(***************************************************************************)
(* A model of the CloudFS core: the metadata index (entries, versions,     *)
(* placements, cache rows, hydration state, trash, snapshots), the         *)
(* write-ahead journal, the placeholder layer, the hydration controller,   *)
(* the trash manager, the snapshot manager, the delete coordinator and the *)
(* CLI commands that drive them.                                           *)
(*                                                                         *)
(* One command runs at a time (the CLI is a single process without a       *)
(* daemon).  Hydrate, RunHydrate and RunTrashPurge are split at their      *)
(* externally visible steps so that a crash can fall between two of them;  *)
(* every other handler is one action.  Outcomes of external calls (rclone, *)
(* the filesystem, an index write whose error the code checks) are inputs  *)
(* chosen with \E.                                                         *)
(***************************************************************************)
EXTENDS Integers, Sequences, FiniteSets, TLC

\* ------------------------------------------------------------------ bounds
MaxEntries == 2
MaxVersions == 2
MaxOps == 4
\* a snapshot restore may open one more journal entry than the other commands
MaxRestoreOps == 5
MaxTrash == 2
\* free space of a provider and size of a file, in blocks
MaxFree == 1
\* placement rows of one version, and days since the last verification
MaxPlacementCount == 3
MaxAgeDays == 31
\* callers running at the same time, and the calls they make in all
MaxThreads == 2
MaxCalls == 2

EntryIds == 1..MaxEntries
VerNums == 1..MaxVersions
Vids == EntryIds \X VerNums
Providers == {"p1"}
Pids == Vids \X Providers
SnapNames == {"S"}

VARIABLES
    entries,          \* ids of the rows of table entries
    nextEntryId,      \* AUTOINCREMENT counter of table entries
    versions,         \* versions row of <<entry, version_num>>: its state, or "none"
    placements,       \* placements row of <<version, provider>>: its state, or "none"
    hydration,        \* hydration_state row of an entry: current_state, or "norow"
    hydratedVer,      \* its hydrated_version_id as a version number, 0 for NULL
    cacheRows,        \* cache_entries row of a version: "none", or where cache_path points
    pinned,           \* the versions whose cache_entries row has pinned = 1
    trash,            \* rows of table trash
    nextTrashId,      \* AUTOINCREMENT counter of table trash
    snapshots,        \* snapshot name -> version ids linked in snapshot_versions
    providerRows,     \* names of the rows of table providers
    journal,          \* rows of table journal, in insertion order
    realFile,         \* content of <root>/<name>: "absent", "good", "bad" or "partial"
    realVer,          \* the version whose bytes a "good" real file holds, else 0
    placeholderFile,  \* whether <root>/<name>.cloudfs exists
    cacheFile,        \* content of <cache>/entries/<e>/<v>/data
    cliCacheFile,     \* content of <cache>/entries/<e>/<name> (written by RunHydrate)
    remote,           \* whether the remote object of a placement exists
    remoteDeletes,    \* the remote deletes issued so far: <<issuer, placement>>
    pc,               \* position of the running command, "idle" between commands
    cur,              \* locals of the running command
    result            \* what the last finished command reported

vars == <<entries, nextEntryId, versions, placements, hydration, hydratedVer, cacheRows, pinned,
          trash, nextTrashId, snapshots, providerRows, journal, realFile, realVer,
          placeholderFile, cacheFile, cliCacheFile, remote, remoteDeletes, pc, cur, result>>

indexVars == <<entries, nextEntryId, versions, placements, hydration, hydratedVer,
               cacheRows, pinned, trash, nextTrashId, snapshots, providerRows>>
fsVars == <<realFile, realVer, placeholderFile, cacheFile, cliCacheFile>>

\* ------------------------------------------------------------- the journal
JournalStates == {"pending", "committed", "synced", "rolled_back"}

\* INSERT INTO journal (...) VALUES (?, ?, ?, 'pending'); the new row's
\* operation id is its position.  No step reads operation_type or payload
\* back, so a row is its state, the set of state changes it has gone through,
\* created_at (datetime('now'), a whole number of seconds) and, of the
\* payload, the entry id a hydrate operation names (0 for the others).
\* The index is opened with _journal_mode=WAL&_synchronous=NORMAL: the INSERT
\* is appended to the write-ahead log without an fsync, so the new row is
\* not yet on durable storage; durable tells whether it has got there.
BeginOperationAt(j, opType, sec) ==
    Append(j, [state |-> "pending", changes |-> {}, created |-> sec, payload |-> 0,
               durable |-> FALSE])

\* The payload Hydrate gives its operation: {"entry_id": e, ...}.
WithPayload(j, opID, e) == [j EXCEPT ![opID].payload = e]

LastSecond(j) == IF j = <<>> THEN 0 ELSE j[Len(j)].created

\* A command begins its operation in the second after the last one; only
\* the ORDER BY of the pending-operations query reads created_at.
BeginOperation(j, opType) == BeginOperationAt(j, opType, LastSecond(j) + 1)

NewOpId(j) == Len(j) + 1

\* UPDATE journal SET state = ... WHERE operation_id = ?  -- no test of the
\* state the row is in; an unknown id updates nothing.
SetJournalState(j, opID, st) ==
    IF opID \in 1..Len(j)
    THEN [j EXCEPT ![opID] =
            [state |-> st,
             changes |-> IF @.state = st THEN @.changes
                         ELSE @.changes \cup {<<@.state, st>>},
             created |-> @.created,
             payload |-> @.payload,
             durable |-> @.durable]]
    ELSE j

CommitOperation(j, opID) == SetJournalState(j, opID, "committed")

SyncOperation(j, opID) == SetJournalState(j, opID, "synced")

RollbackOperation(j, opID) == SetJournalState(j, opID, "rolled_back")

\* SELECT ... FROM journal WHERE state IN ('pending', 'committed')
GetPendingOperations(j) ==
    {i \in 1..Len(j) : j[i].state \in {"pending", "committed"}}

\* commit followed by sync, as every handler ends
CompleteJournal(j, opID) == SyncOperation(CommitOperation(j, opID), opID)

CanBegin == Len(journal) < MaxOps

\* ----------------------------------------------------------------- results
NoArg == <<>>

Res(op, arg, ok, err) ==
    [op |-> op, arg |-> arg, ok |-> ok, err |-> err, opId |-> 0,
     confirmed |-> TRUE, dryRun |-> FALSE, deleted |-> 0, failed |-> 0,
     req |-> {}, attempted |-> {}, failedSet |-> {}, warned |-> {},
     unmarked |-> {}, seen |-> <<>>, cancelAt |-> "none"]

Running == Res("running", NoArg, FALSE, "")

NoCur == [op |-> "none"]

Idle == pc = "idle"

\* ------------------------------------------------------------ index reads
\* SELECT ... FROM versions WHERE entry_id = ? AND state = 'active'
\* ORDER BY version_num DESC LIMIT 1; 0 when there is no row.
ActiveNums(vs, e) == {n \in VerNums : vs[<<e, n>>] = "active"}

GetActiveVersion(vs, e) ==
    IF ActiveNums(vs, e) = {} THEN 0
    ELSE CHOOSE n \in ActiveNums(vs, e) : \A m \in ActiveNums(vs, e) : m <= n

\* SELECT ... FROM versions WHERE state = 'active'
ActiveVersions == {v \in Vids : versions[v] = "active"}

\* hydration_state read: a missing row reads as placeholder
getHydrationState(h, e) == IF h[e] = "norow" THEN "placeholder" ELSE h[e]

\* SELECT ... FROM placements WHERE version_id = ? AND state IN ('uploaded','verified')
getPlacement(ps, v) == {p \in Providers : ps[<<v, p>>] \in {"uploaded", "verified"}}

\* ------------------------------------------------------------------- Init
Init ==
    /\ entries = {}
    /\ nextEntryId = 1
    /\ versions = [v \in Vids |-> "none"]
    /\ placements = [p \in Pids |-> "none"]
    /\ hydration = [e \in EntryIds |-> "norow"]
    /\ hydratedVer = [e \in EntryIds |-> 0]
    /\ cacheRows = [v \in Vids |-> "none"]
    /\ pinned = {}
    /\ trash = {}
    /\ nextTrashId = 1
    /\ snapshots = <<>>
    /\ providerRows = {}
    /\ journal = <<>>
    /\ realFile = [e \in EntryIds |-> "absent"]
    /\ realVer = [e \in EntryIds |-> 0]
    /\ placeholderFile = [e \in EntryIds |-> FALSE]
    /\ cacheFile = [v \in Vids |-> "absent"]
    /\ cliCacheFile = [e \in EntryIds |-> "absent"]
    /\ remote = [p \in Pids |-> FALSE]
    /\ remoteDeletes = {}
    /\ pc = "idle"
    /\ cur = NoCur
    /\ result = Res("init", NoArg, TRUE, "")

\* ------------------------------------------------------------ small helpers
RECURSIVE SetToSeq(_)
SetToSeq(S) ==
    IF S = {} THEN <<>>
    ELSE LET x == CHOOSE y \in S : TRUE IN <<x>> \o SetToSeq(S \ {x})

\* One journal row per item, begun and then synced (the item succeeded) or
\* rolled back (it failed), in the order of the items.
RECURSIVE JournalEach(_, _, _, _)
JournalEach(j, opType, items, okSet) ==
    IF items = <<>> THEN j
    ELSE LET b == BeginOperation(j, opType)
             id == NewOpId(j)
             done == IF Head(items) \in okSet THEN CompleteJournal(b, id)
                     ELSE RollbackOperation(b, id)
         IN JournalEach(done, opType, Tail(items), okSet)

\* --------------------------------------------------------------- RunAdd
\* cloudfs add <path>: journal, entry row, version 1 (active), cache copy of
\* the file, placeholder beside the file.  The added file is <root>/<name>
\* and stays where it is.
RunAdd ==
    /\ Idle /\ CanBegin
    /\ nextEntryId <= MaxEntries
    /\ \E insertOk \in BOOLEAN :
        LET e == nextEntryId
            opID == NewOpId(journal)
            b == BeginOperation(journal, "add")
        IN IF ~insertOk
           THEN /\ journal' = RollbackOperation(b, opID)
                /\ result' = [Res("RunAdd", e, FALSE, "IO") EXCEPT !.opId = opID]
                /\ UNCHANGED <<entries, nextEntryId, versions, cacheRows, pinned, cacheFile,
                               placeholderFile, realFile, realVer>>
           ELSE /\ entries' = entries \cup {e}
                /\ nextEntryId' = e + 1
                /\ versions' = [versions EXCEPT ![<<e, 1>>] = "active"]
                /\ cacheFile' = [cacheFile EXCEPT ![<<e, 1>>] = "good"]
                /\ cacheRows' = [cacheRows EXCEPT ![<<e, 1>>] = "data"]
                /\ UNCHANGED pinned
                /\ placeholderFile' = [placeholderFile EXCEPT ![e] = TRUE]
                /\ realFile' = [realFile EXCEPT ![e] = "good"]
                /\ realVer' = [realVer EXCEPT ![e] = 1]
                /\ journal' = CompleteJournal(b, opID)
                /\ result' = [Res("RunAdd", e, TRUE, "") EXCEPT !.opId = opID]
    /\ UNCHANGED <<placements, hydration, hydratedVer, trash, nextTrashId, snapshots, providerRows,
                   cliCacheFile, remote, remoteDeletes, pc, cur>>

\* --------------------------------------------------------------- RunPush
\* Cache.Get: the row exists and the file it points to exists.
CacheGet(v) ==
    \/ cacheRows[v] = "data" /\ cacheFile[v] # "absent"
    \/ cacheRows[v] = "cli" /\ cliCacheFile[v[1]] # "absent"

\* Active versions of existing entries without any placement row, whose
\* bytes are found in the cache or at the real path.
PushPending ==
    {v \in Vids : /\ v[1] \in entries
                  /\ versions[v] = "active"
                  /\ \A p \in Providers : placements[<<v, p>>] = "none"
                  /\ (CacheGet(v) \/ realFile[v[1]] # "absent")}

\* cloudfs push: each pending version goes to each provider of table
\* providers; an upload or a placement insert that fails rolls its journal
\* row back and the loop goes on.
RunPush ==
    /\ Idle
    /\ PushPending # {}
    /\ providerRows # {}
    /\ LET items == SetToSeq(PushPending \X providerRows)
       IN /\ Len(journal) + Len(items) <= MaxOps
          /\ \E upSet \in SUBSET (PushPending \X providerRows) :
              \E okSet \in SUBSET upSet :
                /\ placements' = [p \in Pids |->
                                    IF p \in okSet THEN "uploaded" ELSE placements[p]]
                /\ remote' = [p \in Pids |-> IF p \in upSet THEN TRUE ELSE remote[p]]
                /\ journal' = JournalEach(journal, "push", items, okSet)
                /\ result' = Res("RunPush", NoArg, TRUE, "")
    /\ UNCHANGED <<entries, nextEntryId, versions, hydration, hydratedVer, cacheRows, pinned, trash,
                   nextTrashId,
                   snapshots, providerRows, fsVars, remoteDeletes, pc, cur>>

\* -------------------------------------------------------------- providers
\* cloudfs provider add: rclone lsd answers for the remote, then the row is
\* inserted.
RunProviderAdd(p) ==
    /\ Idle
    /\ p \notin providerRows
    /\ \E ok \in BOOLEAN :
        /\ providerRows' = IF ok THEN providerRows \cup {p} ELSE providerRows
        /\ result' = Res("RunProviderAdd", p, ok, IF ok THEN "" ELSE "IO")
    /\ UNCHANGED <<entries, nextEntryId, versions, placements, hydration, hydratedVer,
                   cacheRows, pinned, trash,
                   nextTrashId, snapshots, journal, fsVars, remote, remoteDeletes,
                   pc, cur>>

\* Rows of table placements whose provider_id equals the numeric id of the
\* provider row: provider_id holds the provider's name, so there is none.
PlacementsOfProviderId(p) == {}

\* cloudfs provider remove: refuse when placements are counted for the
\* provider, else delete its rows.
RunProviderRemove(p) ==
    /\ Idle
    /\ p \in providerRows
    /\ IF PlacementsOfProviderId(p) # {}
       THEN /\ result' = Res("RunProviderRemove", p, FALSE, "HasPlacements")
            /\ UNCHANGED providerRows
       ELSE /\ providerRows' = providerRows \ {p}
            /\ result' = Res("RunProviderRemove", p, TRUE, "")
    /\ UNCHANGED <<entries, nextEntryId, versions, placements, hydration, hydratedVer,
                   cacheRows, pinned, trash,
                   nextTrashId, snapshots, journal, fsVars, remote, remoteDeletes,
                   pc, cur>>

\* ---------------------------------------------------- placeholder layer
\* The fingerprint of a file is its content token; every version row carries
\* the fingerprint "good" (RunAdd hashes the bytes it ingests).
VersionHash == "good"

\* AtomicSwap steps 1-3: the cache file exists, its fingerprint equals the
\* expected one unless that is empty, its size is the entry's logical size
\* ("good" and "bad" have that size).
SwapVerifies(content, expectedHash) ==
    /\ content # "absent"
    /\ (expectedHash # "" => content = expectedHash)

\* AtomicSwap steps 4-5: copy into <real>.cloudfs.tmp and rename it onto the
\* real path; the real path changes only by the rename.
SwapRename(old, content, copyOk, renameOk) ==
    IF copyOk /\ renameOk THEN content ELSE old

\* -------------------------------------------------- hydration controller
\* What can be observed of an entry: its real file, its placeholder, its
\* hydration_state row, its cache rows and its version rows.
Observable(e) ==
    <<realFile[e], realVer[e], placeholderFile[e], hydration[e], hydratedVer[e],
      [n \in VerNums |-> cacheRows[<<e, n>>]], [n \in VerNums |-> versions[<<e, n>>]]>>

\* What a Dehydrate that directly follows a successful Hydrate of the same
\* entry found, handed on to a Hydrate that directly follows it.
SeenAfterHydrate(e) ==
    IF result.op = "Hydrate" /\ result.ok /\ result.arg = e THEN Observable(e) ELSE <<>>

SeenBeforeDehydrate(e) ==
    IF result.op = "Dehydrate" /\ result.ok /\ result.arg = e THEN result.seen ELSE <<>>

\* Every index and journal write of Hydrate goes through the context the
\* caller passed (ExecContext): once that context is cancelled the write
\* fails and the row keeps its old value.
CtxDone == cur.cancelAt # "none"

CtxWrite(old, new) == IF CtxDone THEN old ELSE new

HydrationFail(e, opID, err) ==
    [Res("Hydrate", e, FALSE, err) EXCEPT !.opId = opID, !.cancelAt = cur.cancelAt]

\* Hydrate steps 1-6: the checks, then journal.begin.
HydrateBegin(e) ==
    /\ Idle
    /\ LET n == GetActiveVersion(versions, e)
           v == <<e, n>>
       IN IF e \notin entries
          THEN /\ result' = Res("Hydrate", e, FALSE, "NotFound")
               /\ UNCHANGED <<journal, pc, cur>>
          ELSE IF n = 0
          THEN /\ result' = Res("Hydrate", e, FALSE, "NoVersion")
               /\ UNCHANGED <<journal, pc, cur>>
          ELSE IF getHydrationState(hydration, e) = "hydrated"
          THEN /\ result' = [Res("Hydrate", e, TRUE, "")
                                 EXCEPT !.seen = SeenBeforeDehydrate(e)]
               /\ UNCHANGED <<journal, pc, cur>>
          ELSE IF getPlacement(placements, v) = {}
          THEN /\ result' = Res("Hydrate", e, FALSE, "NoPlacement")
               /\ UNCHANGED <<journal, pc, cur>>
          ELSE /\ CanBegin
               /\ \E p \in getPlacement(placements, v) :
                    cur' = [op |-> "Hydrate", e |-> e, v |-> v, p |-> p,
                            opId |-> NewOpId(journal), content |-> "absent",
                            seen |-> SeenBeforeDehydrate(e), cancelAt |-> "none"]
               /\ journal' = WithPayload(BeginOperation(journal, "hydrate"),
                                          NewOpId(journal), e)
               /\ pc' = "h_set"
               /\ result' = Running
    /\ UNCHANGED <<indexVars, fsVars, remote, remoteDeletes>>

\* Step 7: hydration_state := hydrating.
HydrateSetHydrating ==
    /\ pc = "h_set"
    /\ \E ok \in BOOLEAN :
        IF ok /\ ~CtxDone
        THEN /\ hydration' = [hydration EXCEPT ![cur.e] = "hydrating"]
             /\ hydratedVer' = [hydratedVer EXCEPT ![cur.e] = 0]
             /\ pc' = "h_mktemp"
             /\ result' = Running
             /\ UNCHANGED <<journal, cur>>
        ELSE /\ journal' = CtxWrite(journal, RollbackOperation(journal, cur.opId))
             /\ result' = HydrationFail(cur.e, cur.opId, "set_hydrating")
             /\ pc' = "idle"
             /\ cur' = NoCur
             /\ UNCHANGED <<hydration, hydratedVer>>
    /\ UNCHANGED <<entries, nextEntryId, versions, placements, cacheRows, pinned, trash, nextTrashId,
                   snapshots, providerRows, fsVars, remote, remoteDeletes>>

\* hydration_state after a failed MkdirAll of the temp directory: the branch
\* rolls the journal back and returns, and writes no hydration state.
AfterMkTempFailure(h, e) == h

\* Step 8, first half: create the temp directory.
HydrateMkTemp ==
    /\ pc = "h_mktemp"
    /\ \E ok \in BOOLEAN :
        IF ok
        THEN /\ pc' = "h_download"
             /\ result' = Running
             /\ UNCHANGED <<journal, cur, hydration, hydratedVer>>
        ELSE /\ journal' = CtxWrite(journal, RollbackOperation(journal, cur.opId))
             /\ hydration' = AfterMkTempFailure(hydration, cur.e)
             /\ UNCHANGED hydratedVer
             /\ result' = HydrationFail(cur.e, cur.opId, "mktemp")
             /\ pc' = "idle"
             /\ cur' = NoCur
    /\ UNCHANGED <<entries, nextEntryId, versions, placements, cacheRows, pinned, trash, nextTrashId,
                   snapshots, providerRows, fsVars, remote, remoteDeletes>>

\* What a download can deliver: nothing when the remote object is gone,
\* else an error, the right bytes, or wrong bytes whose fingerprint the
\* provider reports ("mismatch") or does not report ("bad").
DownloadOutcomes(p) ==
    IF remote[p] THEN {"fail", "good", "bad", "mismatch"} ELSE {"fail"}

\* rclone runs under the caller's context (exec.CommandContext): with the
\* context cancelled it delivers nothing.
HydrateDownloadOutcomes(p) ==
    IF CtxDone THEN {"fail"} ELSE DownloadOutcomes(p)

\* Steps 8-9: download to the temp path, compare the reported fingerprint.
HydrateDownload ==
    /\ pc = "h_download"
    /\ \E out \in HydrateDownloadOutcomes(<<cur.v, cur.p>>) :
        IF out \in {"good", "bad"}
        THEN /\ cur' = [cur EXCEPT !.content = out]
             /\ pc' = "h_put"
             /\ result' = Running
             /\ UNCHANGED <<journal, hydration, hydratedVer>>
        ELSE /\ hydration' = CtxWrite(hydration,
                                         [hydration EXCEPT ![cur.e] = "placeholder"])
             /\ hydratedVer' = CtxWrite(hydratedVer, [hydratedVer EXCEPT ![cur.e] = 0])
             /\ journal' = CtxWrite(journal, RollbackOperation(journal, cur.opId))
             /\ result' = HydrationFail(cur.e, cur.opId,
                             IF out = "fail" THEN "download" ELSE "HashMismatch")
             /\ pc' = "idle"
             /\ cur' = NoCur
    /\ UNCHANGED <<entries, nextEntryId, versions, placements, cacheRows, pinned, trash, nextTrashId,
                   snapshots, providerRows, fsVars, remote, remoteDeletes>>

\* Step 10: cache.Put moves the temp file to the cache path, then upserts the
\* cache row; either can fail.
HydrateCachePut ==
    /\ pc = "h_put"
    /\ \E out \in {"ok", "moveFails", "rowFails"} \ (IF CtxDone THEN {"ok"} ELSE {}) :
        /\ cacheFile' = IF out = "moveFails" THEN cacheFile
                        ELSE [cacheFile EXCEPT ![cur.v] = cur.content]
        /\ IF out = "ok"
           THEN /\ cacheRows' = [cacheRows EXCEPT ![cur.v] = "data"]
                /\ UNCHANGED pinned
                /\ pc' = "h_swap"
                /\ result' = Running
                /\ UNCHANGED <<journal, hydration, hydratedVer, cur>>
           ELSE /\ hydration' = CtxWrite(hydration,
                                         [hydration EXCEPT ![cur.e] = "placeholder"])
                /\ hydratedVer' = CtxWrite(hydratedVer, [hydratedVer EXCEPT ![cur.e] = 0])
                /\ journal' = CtxWrite(journal, RollbackOperation(journal, cur.opId))
                /\ result' = HydrationFail(cur.e, cur.opId, "cache_put")
                /\ pc' = "idle"
                /\ cur' = NoCur
                /\ UNCHANGED <<cacheRows, pinned>>
    /\ UNCHANGED <<entries, nextEntryId, versions, placements, trash, nextTrashId,
                   snapshots, providerRows,
                   realFile, realVer, placeholderFile, cliCacheFile, remote, remoteDeletes>>

\* Step 11, AtomicSwap steps 1-5: verify the cache file, copy it beside the
\* target, rename it onto the real path.
HydrateSwap ==
    /\ pc = "h_swap"
    /\ \E copyOk \in BOOLEAN, renameOk \in BOOLEAN :
        LET verified == SwapVerifies(cacheFile[cur.v], VersionHash)
        IN IF verified /\ copyOk /\ renameOk
           THEN /\ realFile' = [realFile EXCEPT ![cur.e] =
                       SwapRename(realFile[cur.e], cacheFile[cur.v], copyOk, renameOk)]
                /\ realVer' = [realVer EXCEPT ![cur.e] = cur.v[2]]
                /\ pc' = "h_unlink"
                /\ result' = Running
                /\ UNCHANGED <<journal, hydration, hydratedVer, cur>>
           ELSE /\ hydration' = CtxWrite(hydration,
                                         [hydration EXCEPT ![cur.e] = "placeholder"])
                /\ hydratedVer' = CtxWrite(hydratedVer, [hydratedVer EXCEPT ![cur.e] = 0])
                /\ journal' = CtxWrite(journal, RollbackOperation(journal, cur.opId))
                /\ result' = HydrationFail(cur.e, cur.opId,
                                IF verified THEN "swap_io" ELSE "HashMismatch")
                /\ pc' = "idle"
                /\ cur' = NoCur
                /\ UNCHANGED <<realFile, realVer>>
    /\ UNCHANGED <<entries, nextEntryId, versions, placements, cacheRows, pinned, trash, nextTrashId,
                   snapshots, providerRows, placeholderFile, cacheFile, cliCacheFile, remote,
                   remoteDeletes>>

\* AtomicSwap step 6: remove the placeholder.
HydrateUnlinkPlaceholder ==
    /\ pc = "h_unlink"
    /\ placeholderFile' = [placeholderFile EXCEPT ![cur.e] = FALSE]
    /\ pc' = "h_hydrated"
    /\ result' = Running
    /\ UNCHANGED <<indexVars, journal, realFile, realVer, cacheFile, cliCacheFile, remote,
                   remoteDeletes, cur>>

\* Step 12: hydration_state := hydrated; a failure is a warning.
HydrateSetHydrated ==
    /\ pc = "h_hydrated"
    /\ \E ok \in BOOLEAN :
        /\ hydration' = IF ok /\ ~CtxDone
                        THEN [hydration EXCEPT ![cur.e] = "hydrated"] ELSE hydration
        /\ hydratedVer' = IF ok /\ ~CtxDone
                          THEN [hydratedVer EXCEPT ![cur.e] = cur.v[2]] ELSE hydratedVer
    /\ pc' = "h_commit"
    /\ result' = Running
    /\ UNCHANGED <<entries, nextEntryId, versions, placements, cacheRows, pinned, trash, nextTrashId,
                   snapshots, providerRows, journal, fsVars, remote, remoteDeletes, cur>>

\* Step 14, first half: journal.commit; a failure is a warning.
HydrateCommit ==
    /\ pc = "h_commit"
    /\ \E ok \in BOOLEAN :
        journal' = IF ok /\ ~CtxDone THEN CommitOperation(journal, cur.opId) ELSE journal
    /\ pc' = "h_sync"
    /\ result' = Running
    /\ UNCHANGED <<indexVars, fsVars, remote, remoteDeletes, cur>>

\* Step 14, second half: journal.sync (a failure is a warning), then success.
HydrateSync ==
    /\ pc = "h_sync"
    /\ \E ok \in BOOLEAN :
        journal' = IF ok /\ ~CtxDone THEN SyncOperation(journal, cur.opId) ELSE journal
    /\ result' = [Res("Hydrate", cur.e, TRUE, "")
                      EXCEPT !.opId = cur.opId, !.seen = cur.seen,
                             !.cancelAt = cur.cancelAt]
    /\ pc' = "idle"
    /\ cur' = NoCur
    /\ UNCHANGED <<indexVars, fsVars, remote, remoteDeletes>>

\* The caller cancels the context of the Hydrate in flight; cancelAt keeps
\* the step the cancellation arrived before.
HydratePcs == {"h_set", "h_mktemp", "h_download", "h_put", "h_swap",
               "h_unlink", "h_hydrated", "h_commit", "h_sync"}

Cancel ==
    /\ pc \in HydratePcs
    /\ ~CtxDone
    /\ cur' = [cur EXCEPT !.cancelAt = pc]
    /\ result' = Running
    /\ UNCHANGED <<indexVars, journal, fsVars, remote, remoteDeletes, pc>>

\* A checkpoint of the write-ahead log (SQLite runs one when the log has grown
\* or the last connection closes): the log is fsynced and the rows written so
\* far are on durable storage.  No call of the program asks for one.
Checkpoint ==
    /\ \E i \in 1..Len(journal) : ~journal[i].durable
    /\ journal' = [i \in 1..Len(journal) |-> [journal[i] EXCEPT !.durable = TRUE]]
    /\ UNCHANGED <<indexVars, fsVars, remote, remoteDeletes, pc, cur, result>>

\* The process dies in the middle of a command: its locals are lost, the
\* index, the journal and the files stay as they are.
Crash ==
    /\ pc \notin {"idle", "destroyed"}
    /\ pc' = "idle"
    /\ cur' = NoCur
    /\ result' = Res("crash", NoArg, FALSE, "crash")
    /\ UNCHANGED <<indexVars, journal, fsVars, remote, remoteDeletes>>

\* ------------------------------------------------------------- Dehydrate
\* PlaceholderManager.Dehydrate: nothing to do when the real file is absent;
\* else write the placeholder (temp + rename), then remove the real file,
\* whose failure is only logged.
\* HydrationController.Dehydrate around it: journal, hydration_state :=
\* placeholder (a failure is a warning), commit, sync.
Dehydrate(e) ==
    /\ Idle
    /\ LET n == GetActiveVersion(versions, e)
           opID == NewOpId(journal)
           b == BeginOperation(journal, "dehydrate")
       IN IF e \notin entries \/ n = 0 \/ getPlacement(placements, <<e, n>>) = {}
          THEN /\ result' = Res("Dehydrate", e, FALSE, "precondition")
               /\ UNCHANGED <<journal, hydration, hydratedVer, placeholderFile, realFile, realVer>>
          ELSE /\ CanBegin
               /\ \E writeOk \in BOOLEAN, removeOk \in BOOLEAN, setOk \in BOOLEAN :
                    IF realFile[e] # "absent" /\ ~writeOk
                    THEN /\ journal' = RollbackOperation(b, opID)
                         /\ result' = [Res("Dehydrate", e, FALSE, "placeholder")
                                          EXCEPT !.opId = opID]
                         /\ UNCHANGED <<hydration, hydratedVer, placeholderFile, realFile, realVer>>
                    ELSE /\ placeholderFile' =
                              IF realFile[e] # "absent"
                              THEN [placeholderFile EXCEPT ![e] = TRUE]
                              ELSE placeholderFile
                         /\ realFile' = IF removeOk THEN [realFile EXCEPT ![e] = "absent"]
                                        ELSE realFile
                         /\ realVer' = IF removeOk THEN [realVer EXCEPT ![e] = 0]
                                       ELSE realVer
                         /\ hydration' = IF setOk
                                         THEN [hydration EXCEPT ![e] = "placeholder"]
                                         ELSE hydration
                         /\ hydratedVer' = IF setOk THEN [hydratedVer EXCEPT ![e] = 0]
                                           ELSE hydratedVer
                         /\ journal' = CompleteJournal(b, opID)
                         /\ result' = [Res("Dehydrate", e, TRUE, "")
                                          EXCEPT !.opId = opID,
                                                 !.seen = SeenAfterHydrate(e)]
    /\ UNCHANGED <<entries, nextEntryId, versions, placements, cacheRows, pinned, trash, nextTrashId,
                   snapshots, providerRows, cacheFile, cliCacheFile, remote,
                   remoteDeletes, pc, cur>>

\* Number of placement rows over all versions of an entry, in any state.
PlacementCount(e) ==
    Cardinality({p \in Pids : p[1][1] = e /\ placements[p] # "none"})

\* cloudfs dehydrate <path>
RunDehydrate(e) ==
    /\ Idle
    /\ LET opID == NewOpId(journal)
           b == BeginOperation(journal, "dehydrate")
       IN IF e \notin entries \/ PlacementCount(e) = 0
          THEN /\ result' = Res("RunDehydrate", e, FALSE, "precondition")
               /\ UNCHANGED <<journal, placeholderFile, realFile, realVer>>
          ELSE /\ CanBegin
               /\ \E writeOk \in BOOLEAN, removeOk \in BOOLEAN :
                    IF ~writeOk
                    THEN /\ journal' = RollbackOperation(b, opID)
                         /\ result' = [Res("RunDehydrate", e, FALSE, "placeholder")
                                          EXCEPT !.opId = opID]
                         /\ UNCHANGED <<placeholderFile, realFile, realVer>>
                    ELSE /\ placeholderFile' = [placeholderFile EXCEPT ![e] = TRUE]
                         /\ realFile' = IF removeOk THEN [realFile EXCEPT ![e] = "absent"]
                                        ELSE realFile
                         /\ realVer' = IF removeOk THEN [realVer EXCEPT ![e] = 0]
                                       ELSE realVer
                         /\ journal' = CompleteJournal(b, opID)
                         /\ result' = [Res("RunDehydrate", e, TRUE, "")
                                          EXCEPT !.opId = opID]
    /\ UNCHANGED <<indexVars, cacheFile, cliCacheFile, remote, remoteDeletes, pc, cur>>

\* ------------------------------------------------------------- RunHydrate
\* Placements of the active versions of an entry, in any state, joined with
\* table providers on the provider's name.
ActivePlacements(e) ==
    {p \in Pids : /\ p[1][1] = e
                  /\ versions[p[1]] = "active"
                  /\ placements[p] # "none"
                  /\ p[2] \in providerRows}

\* cloudfs hydrate <path>, up to the journal begin.
RunHydrateBegin(e) ==
    /\ Idle
    /\ IF e \notin entries \/ ActivePlacements(e) = {}
       THEN /\ result' = Res("RunHydrate", e, FALSE, "precondition")
            /\ UNCHANGED <<journal, pc, cur>>
       ELSE /\ CanBegin
            /\ \E p \in ActivePlacements(e) :
                 cur' = [op |-> "RunHydrate", e |-> e, v |-> p[1], p |-> p[2],
                         opId |-> NewOpId(journal), content |-> "absent"]
            /\ journal' = BeginOperation(journal, "hydrate")
            /\ pc' = "rh_download"
            /\ result' = Running
    /\ UNCHANGED <<indexVars, fsVars, remote, remoteDeletes>>

\* rclone copy into the cache directory, then the hash comparison; a
\* mismatch removes the cache file.
RunHydrateDownload ==
    /\ pc = "rh_download"
    /\ \E out \in DownloadOutcomes(<<cur.v, cur.p>>) \ {"mismatch"} :
        IF out = "good"
        THEN /\ cliCacheFile' = [cliCacheFile EXCEPT ![cur.e] = out]
             /\ pc' = "rh_create"
             /\ result' = Running
             /\ UNCHANGED <<journal, cur>>
        ELSE /\ cliCacheFile' = IF out = "bad"
                                THEN [cliCacheFile EXCEPT ![cur.e] = "absent"]
                                ELSE cliCacheFile
             /\ journal' = RollbackOperation(journal, cur.opId)
             /\ result' = [Res("RunHydrate", cur.e, FALSE,
                               IF out = "bad" THEN "HashMismatch" ELSE "download")
                             EXCEPT !.opId = cur.opId]
             /\ pc' = "idle"
             /\ cur' = NoCur
    /\ UNCHANGED <<indexVars, realFile, realVer, placeholderFile, cacheFile, remote,
                   remoteDeletes>>

\* What os.Create leaves at a path: a regular file of length zero.
Created == "partial"

\* copyFile, first half: open the cache file, create (truncate) the real path.
RunHydrateCreate ==
    /\ pc = "rh_create"
    /\ \E ok \in BOOLEAN :
        IF ok
        THEN /\ realFile' = [realFile EXCEPT ![cur.e] = Created]
             /\ realVer' = [realVer EXCEPT ![cur.e] = 0]
             /\ pc' = "rh_copy"
             /\ result' = Running
             /\ UNCHANGED <<journal, cur>>
        ELSE /\ journal' = RollbackOperation(journal, cur.opId)
             /\ result' = [Res("RunHydrate", cur.e, FALSE, "copy")
                             EXCEPT !.opId = cur.opId]
             /\ pc' = "idle"
             /\ cur' = NoCur
             /\ UNCHANGED <<realFile, realVer>>
    /\ UNCHANGED <<indexVars, placeholderFile, cacheFile, cliCacheFile, remote,
                   remoteDeletes>>

\* copyFile, second half: io.Copy into the real path; on an error the
\* handler rolls the journal back and returns.
RunHydrateCopy ==
    /\ pc = "rh_copy"
    /\ \E ok \in BOOLEAN :
        IF ok
        THEN /\ realFile' = [realFile EXCEPT ![cur.e] = cliCacheFile[cur.e]]
             /\ realVer' = [realVer EXCEPT ![cur.e] = cur.v[2]]
             /\ pc' = "rh_finish"
             /\ result' = Running
             /\ UNCHANGED <<journal, cur>>
        ELSE /\ journal' = RollbackOperation(journal, cur.opId)
             /\ result' = [Res("RunHydrate", cur.e, FALSE, "copy")
                             EXCEPT !.opId = cur.opId]
             /\ pc' = "idle"
             /\ cur' = NoCur
             /\ UNCHANGED <<realFile, realVer>>
    /\ UNCHANGED <<indexVars, placeholderFile, cacheFile, cliCacheFile, remote,
                   remoteDeletes>>

\* Remove the placeholder, INSERT OR REPLACE the cache row of the active
\* version, commit, sync.
RunHydrateFinish ==
    /\ pc = "rh_finish"
    /\ placeholderFile' = [placeholderFile EXCEPT ![cur.e] = FALSE]
    /\ \E ok \in BOOLEAN :
        LET n == GetActiveVersion(versions, cur.e)
        IN IF ok /\ n # 0
           THEN /\ cacheRows' = [cacheRows EXCEPT ![<<cur.e, n>>] = "cli"]
                /\ pinned' = pinned \ {<<cur.e, n>>}
                /\ journal' = CompleteJournal(journal, cur.opId)
                /\ result' = [Res("RunHydrate", cur.e, TRUE, "") EXCEPT !.opId = cur.opId]
           ELSE /\ journal' = RollbackOperation(journal, cur.opId)
                /\ result' = [Res("RunHydrate", cur.e, FALSE, "cache_row")
                                EXCEPT !.opId = cur.opId]
                /\ UNCHANGED <<cacheRows, pinned>>
    /\ pc' = "idle"
    /\ cur' = NoCur
    /\ UNCHANGED <<entries, nextEntryId, versions, placements, hydration, hydratedVer, trash,
                   nextTrashId,
                   snapshots, providerRows, realFile, realVer, cacheFile, cliCacheFile,
                   remote, remoteDeletes>>

\* ------------------------------------------------------------ cache evict
\* An Evict that does not look at the pinned column.
EvictIgnoresPinned(v) == FALSE

\* SELECT pinned FROM cache_entries WHERE entry_id = ? AND version_id = ?
EvictRefusesPinned(v) == v \in pinned

\* Whether an Evict directly follows the successful Unpin that took the pin
\* off the row it evicts.
SeenAfterUnpin(v) ==
    IF result.op = "Unpin" /\ result.ok /\ v \in result.seen[1]
    THEN <<"unpinned">> ELSE <<>>

\* The cache_entries rows of an entry.
CacheRowsOf(e) == {v \in Vids : v[1] = e /\ cacheRows[v] # "none"}

\* CacheManager.Pin: UPDATE cache_entries SET pinned = 1 WHERE entry_id = ?;
\* an error when the statement fails or touches no row.
Pin(e) ==
    /\ Idle
    /\ \E ok \in BOOLEAN :
        /\ pinned' = IF ok THEN pinned \cup CacheRowsOf(e) ELSE pinned
        /\ result' = Res("Pin", e, ok /\ CacheRowsOf(e) # {},
                         IF ~ok THEN "IO" ELSE IF CacheRowsOf(e) = {} THEN "NotCached" ELSE "")
    /\ UNCHANGED <<entries, nextEntryId, versions, placements, hydration, hydratedVer,
                   cacheRows, trash, nextTrashId, snapshots, providerRows, journal, fsVars,
                   remote, remoteDeletes, pc, cur>>

\* CacheManager.Unpin: UPDATE cache_entries SET pinned = 0 WHERE entry_id = ?
Unpin(e) ==
    /\ Idle
    /\ \E ok \in BOOLEAN :
        /\ pinned' = IF ok THEN pinned \ CacheRowsOf(e) ELSE pinned
        /\ result' = [Res("Unpin", e, ok, IF ok THEN "" ELSE "IO")
                         EXCEPT !.seen = <<pinned \cap CacheRowsOf(e)>>]
    /\ UNCHANGED <<entries, nextEntryId, versions, placements, hydration, hydratedVer,
                   cacheRows, trash, nextTrashId, snapshots, providerRows, journal, fsVars,
                   remote, remoteDeletes, pc, cur>>

\* CacheManager.Evict: refuse without confirmation; no row, nothing to do;
\* else remove the directory that holds the cached file, then the row.  The
\* directory of a row written by RunHydrate is the entry's directory, which
\* holds the version directories too.
Evict(v, confirmed) ==
    /\ Idle
    /\ IF ~confirmed
       THEN /\ result' = [Res("Evict", v, FALSE, "NeedsConfirmation")
                             EXCEPT !.confirmed = FALSE]
            /\ UNCHANGED <<cacheRows, pinned, cacheFile, cliCacheFile>>
       ELSE IF cacheRows[v] = "none"
       THEN /\ result' = Res("Evict", v, TRUE, "")
            /\ UNCHANGED <<cacheRows, pinned, cacheFile, cliCacheFile>>
       ELSE IF EvictRefusesPinned(v)
       THEN /\ result' = Res("Evict", v, FALSE, "Pinned")
            /\ UNCHANGED <<cacheRows, pinned, cacheFile, cliCacheFile>>
       ELSE /\ cacheFile' = [w \in Vids |->
                               IF w = v \/ (cacheRows[v] = "cli" /\ w[1] = v[1])
                               THEN "absent" ELSE cacheFile[w]]
            /\ cliCacheFile' = IF cacheRows[v] = "cli"
                               THEN [cliCacheFile EXCEPT ![v[1]] = "absent"]
                               ELSE cliCacheFile
            /\ \E ok \in BOOLEAN :
                 /\ cacheRows' = IF ok THEN [cacheRows EXCEPT ![v] = "none"] ELSE cacheRows
                 /\ pinned' = IF ok THEN pinned \ {v} ELSE pinned
                 /\ result' = [Res("Evict", v, ok, IF ok THEN "" ELSE "IO")
                                  EXCEPT !.seen = SeenAfterUnpin(v)]
    /\ UNCHANGED <<entries, nextEntryId, versions, placements, hydration, hydratedVer, trash,
                   nextTrashId,
                   snapshots, providerRows, journal, realFile, realVer, placeholderFile, remote,
                   remoteDeletes, pc, cur>>

\* ------------------------------------------------------ journal commands
RECURSIVE SyncAll(_, _)
SyncAll(j, ids) ==
    IF ids = {} THEN j
    ELSE LET i == CHOOSE x \in ids : TRUE
         IN SyncAll(SyncOperation(j, i), ids \ {i})

\* cloudfs journal resume: every pending or committed operation is marked
\* synced.  (Here and in the commands below a declined prompt ends the
\* command before it has done anything: no step.)
RunJournalResume ==
    /\ Idle
    /\ GetPendingOperations(journal) # {}
    /\ journal' = SyncAll(journal, GetPendingOperations(journal))
    /\ result' = Res("RunJournalResume", NoArg, TRUE, "")
    /\ UNCHANGED <<indexVars, fsVars, remote, remoteDeletes, pc, cur>>

\* cloudfs journal rollback <id>: the named operation is marked rolled_back.
RunJournalRollback(opID) ==
    /\ Idle
    /\ opID \in 1..Len(journal)
    /\ journal' = RollbackOperation(journal, opID)
    /\ result' = [Res("RunJournalRollback", opID, TRUE, "") EXCEPT !.opId = opID]
    /\ UNCHANGED <<indexVars, fsVars, remote, remoteDeletes, pc, cur>>

\* ------------------------------------------------------------------ trash
TrashIds == {r.id : r \in trash}

TrashRow(t) == CHOOSE r \in trash : r.id = t

\* SELECT id FROM versions WHERE entry_id = ? AND state = 'active' scanned
\* into one value: any of the active versions, NULL (0) when there is none.
ActiveVersionChoices(e) == IF ActiveNums(versions, e) = {} THEN {0} ELSE ActiveNums(versions, e)

\* UPDATE versions SET state = 'deleted' WHERE entry_id = ?
MarkDeleted(vs, e) ==
    [v \in Vids |-> IF v[1] = e /\ vs[v] # "none" THEN "deleted" ELSE vs[v]]

\* TrashManager.MoveToTrash: journal, trash row holding the active version,
\* every version of the entry marked deleted; the statements are not in a
\* transaction.
TrashMove(op, e, days) ==
    /\ CanBegin
    /\ nextTrashId <= MaxTrash
    /\ \E ver \in ActiveVersionChoices(e), out \in {"ok", "insertFails", "updateFails"} :
        LET opID == NewOpId(journal)
            b == BeginOperation(journal, "trash_move")
            row == [id |-> nextTrashId, e |-> e, ver |-> ver,
                    purge |-> IF days > 0 THEN "later" ELSE "never"]
        IN /\ trash' = IF out = "insertFails" THEN trash ELSE trash \cup {row}
           /\ nextTrashId' = IF out = "insertFails" THEN nextTrashId ELSE nextTrashId + 1
           /\ versions' = IF out = "ok" THEN MarkDeleted(versions, e) ELSE versions
           /\ journal' = IF out = "ok" THEN CompleteJournal(b, opID)
                         ELSE RollbackOperation(b, opID)
           /\ result' = [Res(op, e, out = "ok", IF out = "ok" THEN "" ELSE "IO")
                           EXCEPT !.opId = opID, !.seen = <<ActiveVersions, versions>>]
    /\ UNCHANGED <<entries, nextEntryId, placements, hydration, hydratedVer, cacheRows, pinned, snapshots,
                   providerRows, fsVars, remote, remoteDeletes, pc, cur>>

\* Callers pass the id of an entry row.
MoveToTrash(e, days) == Idle /\ e \in entries /\ TrashMove("MoveToTrash", e, days)

\* cloudfs rm <path>: the entry must exist; 30 days until auto-purge.
AutoPurgeDays == 30

RunRm(e) == Idle /\ e \in entries /\ TrashMove("RunRm", e, AutoPurgeDays)

\* The active versions before the MoveToTrash that a Restore of the trash row
\* it made directly follows, the entry, and the version rows before it.
SeenBeforeTrash(r) ==
    IF /\ result.op \in {"MoveToTrash", "RunRm"} /\ result.ok
       /\ result.arg = r.e /\ r.id = nextTrashId - 1
    THEN <<result.seen[1], r.e, result.seen[2]>> ELSE <<>>

\* TrashManager.Restore (cloudfs trash restore): the version the trash row
\* holds becomes active again, then the trash row goes.
Restore(t) ==
    /\ Idle
    /\ t \in TrashIds
    /\ CanBegin
    /\ \E out \in {"ok", "updateFails", "deleteFails"} :
        LET r == TrashRow(t)
            opID == NewOpId(journal)
            b == BeginOperation(journal, "trash_restore")
        IN /\ versions' = IF /\ r.ver # 0 /\ out # "updateFails"
                             /\ versions[<<r.e, r.ver>>] # "none"
                          THEN [versions EXCEPT ![<<r.e, r.ver>>] = "active"]
                          ELSE versions
           /\ trash' = IF out = "ok" THEN trash \ {r} ELSE trash
           /\ journal' = IF out = "ok" THEN CompleteJournal(b, opID)
                         ELSE RollbackOperation(b, opID)
           /\ result' = [Res("Restore", t, out = "ok", IF out = "ok" THEN "" ELSE "IO")
                           EXCEPT !.opId = opID, !.seen = SeenBeforeTrash(r)]
    /\ UNCHANGED <<entries, nextEntryId, placements, hydration, hydratedVer, cacheRows, pinned, nextTrashId,
                   snapshots, providerRows, fsVars, remote, remoteDeletes, pc, cur>>

\* The refusal of an unconfirmed destructive call: an error, nothing else.
Refuse(op, arg) ==
    /\ result' = [Res(op, arg, FALSE, "NeedsConfirmation") EXCEPT !.confirmed = FALSE]
    /\ UNCHANGED <<indexVars, journal, fsVars, remote, remoteDeletes, pc, cur>>

\* Purge calling the provider's delete itself for the entry's placements.
PurgeCallsProviderDelete(e) == {p \in Pids : p[1][1] = e /\ placements[p] # "none"}

\* The remote deletes Purge issues for an entry: none ("actual provider
\* deletion would happen here").
PurgeRemoteDeletes(e) == {}

\* TrashManager.Purge past its confirmation check: delete the trash row, then
\* the entry row (a failure there is a warning), commit, sync.
DoPurge(t, confirmed) ==
    /\ t \in TrashIds
    /\ CanBegin
    /\ \E trashOk \in BOOLEAN, entryOk \in BOOLEAN :
        LET r == TrashRow(t)
            opID == NewOpId(journal)
            b == BeginOperation(journal, "trash_purge")
        IN /\ trash' = IF trashOk THEN trash \ {r} ELSE trash
           /\ entries' = IF trashOk /\ entryOk THEN entries \ {r.e} ELSE entries
           /\ remoteDeletes' = remoteDeletes \cup
                                 (IF trashOk THEN {"Purge"} \X PurgeRemoteDeletes(r.e) ELSE {})
           /\ journal' = IF trashOk THEN CompleteJournal(b, opID)
                         ELSE RollbackOperation(b, opID)
           /\ result' = [Res("Purge", t, trashOk, IF trashOk THEN "" ELSE "IO")
                           EXCEPT !.opId = opID, !.confirmed = confirmed]
    /\ UNCHANGED <<nextEntryId, versions, placements, hydration, hydratedVer, cacheRows, pinned,
                   nextTrashId,
                   snapshots, providerRows, fsVars, remote, pc, cur>>

\* Purge without its confirmation check.
PurgeUnguarded(t, confirmed) == Idle /\ DoPurge(t, confirmed)

Purge(t, confirmed) ==
    /\ Idle
    /\ IF ~confirmed THEN Refuse("Purge", NoArg) ELSE DoPurge(t, confirmed)

\* TrashManager.PurgeAll past its confirmation check: delete the entries the
\* trash refers to, then every trash row; no transaction around the two.
DoPurgeAll(op, confirmed, failures) ==
    /\ CanBegin
    /\ \E out \in {"ok", "entriesFail", "trashFails"} :
        LET opID == NewOpId(journal)
            b == BeginOperation(journal, "trash_purge_all")
        IN /\ entries' = IF out = "entriesFail" THEN entries
                         ELSE entries \ {r.e : r \in trash}
           /\ trash' = IF out = "ok" THEN {} ELSE trash
           /\ journal' = IF out = "ok" THEN CompleteJournal(b, opID)
                         ELSE RollbackOperation(b, opID)
           /\ result' = [Res(op, NoArg, out = "ok", IF out = "ok" THEN "" ELSE "IO")
                           EXCEPT !.opId = opID, !.confirmed = confirmed,
                                  !.failedSet = failures,
                                  !.deleted = IF out = "ok" THEN Cardinality(trash) ELSE 0]
    /\ UNCHANGED <<nextEntryId, versions, placements, hydration, hydratedVer, cacheRows, pinned,
                   nextTrashId,
                   snapshots, providerRows, fsVars, remote, remoteDeletes>>

PurgeAll(confirmed) ==
    /\ Idle
    /\ IF ~confirmed THEN Refuse("PurgeAll", NoArg)
       ELSE DoPurgeAll("PurgeAll", confirmed, {}) /\ UNCHANGED <<pc, cur>>

\* Trash rows whose auto_purge_after has passed.
Expired == {r \in trash : r.purge = "due"}

\* TrashManager.PurgeExpired: journal, delete the expired trash rows.
PurgeExpired(confirmed) ==
    /\ Idle
    /\ IF ~confirmed THEN Refuse("PurgeExpired", NoArg)
       ELSE /\ CanBegin
            /\ \E ok \in BOOLEAN :
                LET opID == NewOpId(journal)
                    b == BeginOperation(journal, "trash_purge_expired")
                IN /\ trash' = IF ok THEN trash \ Expired ELSE trash
                   /\ journal' = IF ok THEN CompleteJournal(b, opID)
                                 ELSE RollbackOperation(b, opID)
                   /\ result' = [Res("PurgeExpired", NoArg, ok, IF ok THEN "" ELSE "IO")
                                   EXCEPT !.opId = opID,
                                          !.deleted = IF ok THEN Cardinality(Expired) ELSE 0]
            /\ UNCHANGED <<entries, nextEntryId, versions, placements, hydration, hydratedVer,
                           cacheRows, pinned, nextTrashId, snapshots, providerRows, fsVars,
                           remote, remoteDeletes, pc, cur>>

\* The clock passes the auto_purge_after of a trash row.
TimePasses ==
    /\ Idle
    /\ \E r \in trash :
        /\ r.purge = "later"
        /\ trash' = (trash \ {r}) \cup {[r EXCEPT !.purge = "due"]}
    /\ result' = Res("time", NoArg, TRUE, "")
    /\ UNCHANGED <<entries, nextEntryId, versions, placements, hydration, hydratedVer, cacheRows, pinned,
                   nextTrashId, snapshots, providerRows, journal, fsVars, remote,
                   remoteDeletes, pc, cur>>

\* -------------------------------------------------------- delete coordinator
\* What one turn of Execute's loop can meet: rclone deletefile fails; it
\* succeeds and rclone ls still lists the object; it succeeds, the object is
\* gone and the placement row is deleted ("gone") or the row delete fails
\* ("rowFails").  After a failure downgradePlacement runs and its own error is
\* dropped ("...Unmarked": the UPDATE failed).
ExecOutcomes(p) ==
    IF remote[p]
    THEN {"gone", "rowFails", "deleteFails", "stillThere",
          "deleteFailsUnmarked", "stillThereUnmarked"}
    ELSE {"deleteFails", "deleteFailsUnmarked"}

FailedOutcomes == {"deleteFails", "stillThere", "deleteFailsUnmarked", "stillThereUnmarked"}

\* The placements the loop issues rclone deletefile for: every placement of
\* the request (a failure is followed by continue).
Attempted(req, out) == req

\* A loop that counts a failed deletefile but not a failed verification.
ExecFailedDeleteOnly(req, out) ==
    {p \in req : out[p] \in {"deleteFails", "deleteFailsUnmarked"}}

ExecFailed(req, out) == {p \in req : out[p] \in FailedOutcomes}

ExecPlacements(ps, req, out) ==
    [p \in Pids |->
        IF p \notin req THEN ps[p]
        ELSE IF out[p] = "gone" THEN "none"
        ELSE IF out[p] \in {"deleteFails", "stillThere"} THEN "degraded"
        ELSE ps[p]]

ExecRemote(rm, req, out) ==
    [p \in Pids |-> IF p \in req /\ out[p] \in {"gone", "rowFails"} THEN FALSE ELSE rm[p]]

\* Rows of table placements.
PlacementRows == {p \in Pids : placements[p] # "none"}

\* DeleteCoordinator.Execute: refuse unconfirmed; a dry run reports every
\* placement as deleted and touches nothing; else the loop.
Execute(req, confirmed, dryRun) ==
    /\ Idle
    /\ IF ~confirmed
       THEN Refuse("Execute", NoArg)
       ELSE IF dryRun
       THEN /\ result' = [Res("Execute", NoArg, TRUE, "") EXCEPT
                             !.dryRun = TRUE, !.req = req,
                             !.deleted = Cardinality(req)]
            /\ UNCHANGED <<indexVars, journal, fsVars, remote, remoteDeletes, pc, cur>>
       ELSE \E out \in [req -> FailedOutcomes \cup {"gone", "rowFails"}] :
            /\ \A p \in req : out[p] \in ExecOutcomes(p)
            /\ placements' = ExecPlacements(placements, req, out)
            /\ remote' = ExecRemote(remote, req, out)
            /\ remoteDeletes' = remoteDeletes \cup ({"Execute"} \X Attempted(req, out))
            /\ result' = [Res("Execute", NoArg, TRUE, "") EXCEPT
                             !.req = req, !.attempted = Attempted(req, out),
                             !.failedSet = ExecFailed(req, out),
                             !.failed = Cardinality(ExecFailed(req, out)),
                             !.deleted = Cardinality(req \ ExecFailed(req, out)),
                             !.warned = {p \in req : out[p] = "rowFails"},
                             !.unmarked = {p \in req : out[p] \in
                                             {"deleteFailsUnmarked", "stillThereUnmarked"}}]
            /\ UNCHANGED <<entries, nextEntryId, versions, hydration, hydratedVer, cacheRows, pinned, trash,
                           nextTrashId, snapshots, providerRows, journal, fsVars, pc, cur>>

\* GetPlacementsForEntry: placements joined with versions and entries.
GetPlacementsForEntry(e) ==
    {p \in PlacementRows : p[1][1] = e /\ versions[p[1]] # "none" /\ e \in entries}

\* ------------------------------------------------------------ RunTrashPurge
\* cloudfs trash purge (not a dry run, confirmed or forced), up to the
\* listing of the trash; nothing to do on an empty trash.
RunTrashPurgeBegin ==
    /\ Idle
    /\ trash # {}
    /\ pc' = "tp_exec"
    /\ cur' = [op |-> "RunTrashPurge", todo |-> TrashIds, failedSet |-> {},
               deleted |-> 0, failed |-> 0]
    /\ result' = Running
    /\ UNCHANGED <<indexVars, journal, fsVars, remote, remoteDeletes>>

\* One turn of the loop over the listed trash rows: the entry's placements
\* go to Execute (confirmed, not a dry run); a failed placement query skips
\* the row.
RunTrashPurgeExecute ==
    /\ pc = "tp_exec"
    /\ cur.todo # {}
    /\ \E t \in cur.todo, queryOk \in BOOLEAN :
        LET req == IF queryOk /\ t \in TrashIds
                   THEN GetPlacementsForEntry(TrashRow(t).e) ELSE {}
        IN \E out \in [req -> FailedOutcomes \cup {"gone", "rowFails"}] :
            /\ \A p \in req : out[p] \in ExecOutcomes(p)
            /\ placements' = ExecPlacements(placements, req, out)
            /\ remote' = ExecRemote(remote, req, out)
            /\ remoteDeletes' = remoteDeletes \cup ({"Execute"} \X Attempted(req, out))
            /\ cur' = [cur EXCEPT !.todo = @ \ {t},
                                  !.failedSet = @ \cup ExecFailed(req, out),
                                  !.failed = @ + Cardinality(ExecFailed(req, out)),
                                  !.deleted = @ + Cardinality(req \ ExecFailed(req, out))]
    /\ result' = Running
    /\ UNCHANGED <<entries, nextEntryId, versions, hydration, hydratedVer, cacheRows, pinned, trash,
                   nextTrashId, snapshots, providerRows, journal, fsVars, pc>>

\* After the loop: PurgeAll(confirmed = true), whatever the loop met.
RunTrashPurgePurgeAll ==
    /\ pc = "tp_exec"
    /\ cur.todo = {}
    /\ DoPurgeAll("RunTrashPurge", TRUE, cur.failedSet)
    /\ pc' = "idle"
    /\ cur' = NoCur

\* ------------------------------------------------- commands that remove
\* cloudfs pin <path>: the entry must exist; its cache rows get pinned = 1,
\* an error when there is none.
RunPin(e) ==
    /\ Idle
    /\ e \in entries
    /\ \E ok \in BOOLEAN :
        /\ pinned' = IF ok THEN pinned \cup CacheRowsOf(e) ELSE pinned
        /\ result' = Res("RunPin", e, ok /\ CacheRowsOf(e) # {},
                         IF ~ok THEN "IO" ELSE IF CacheRowsOf(e) = {} THEN "NotCached" ELSE "")
    /\ UNCHANGED <<entries, nextEntryId, versions, placements, hydration, hydratedVer,
                   cacheRows, trash, nextTrashId, snapshots, providerRows, journal, fsVars,
                   remote, remoteDeletes, pc, cur>>

\* cloudfs unpin <path>: the entry must exist; the result of the UPDATE is
\* not looked at.
RunUnpin(e) ==
    /\ Idle
    /\ e \in entries
    /\ \E ok \in BOOLEAN :
        pinned' = IF ok THEN pinned \ CacheRowsOf(e) ELSE pinned
    /\ result' = Res("RunUnpin", e, TRUE, "")
    /\ UNCHANGED <<entries, nextEntryId, versions, placements, hydration, hydratedVer,
                   cacheRows, trash, nextTrashId, snapshots, providerRows, journal, fsVars,
                   remote, remoteDeletes, pc, cur>>

\* cloudfs cache clear: nothing to do when no unpinned cache row belongs to
\* an existing version; after the confirmation the cache directory of every
\* entry that has an unpinned row is removed, then every unpinned row.
RunCacheClear(confirmed) ==
    /\ Idle
    /\ LET unpinned == {v \in Vids : cacheRows[v] # "none" /\ v \notin pinned}
           es == {v[1] : v \in unpinned}
       IN IF \A v \in unpinned : versions[v] = "none"
          THEN /\ result' = Res("RunCacheClear", NoArg, TRUE, "nothing")
               /\ UNCHANGED <<cacheRows, cacheFile, cliCacheFile>>
          ELSE IF ~confirmed
          THEN /\ result' = [Res("RunCacheClear", NoArg, TRUE, "cancelled")
                                EXCEPT !.confirmed = FALSE]
               /\ UNCHANGED <<cacheRows, cacheFile, cliCacheFile>>
          ELSE /\ cacheFile' = [v \in Vids |-> IF v[1] \in es THEN "absent" ELSE cacheFile[v]]
               /\ cliCacheFile' = [e \in EntryIds |->
                                     IF e \in es THEN "absent" ELSE cliCacheFile[e]]
               /\ \E ok \in BOOLEAN :
                    cacheRows' = IF ok
                                 THEN [v \in Vids |->
                                         IF v \in unpinned THEN "none" ELSE cacheRows[v]]
                                 ELSE cacheRows
               /\ result' = Res("RunCacheClear", NoArg, TRUE, "")
    /\ UNCHANGED <<entries, nextEntryId, versions, placements, hydration, hydratedVer,
                   pinned, trash, nextTrashId, snapshots, providerRows, journal, realFile,
                   realVer, placeholderFile, remote, remoteDeletes, pc, cur>>

\* SELECT e.id, COALESCE(c.pinned, 0) FROM entries e LEFT JOIN cache_entries c
\* scanned into one row: the pinned flag of any one of the entry's cache rows,
\* 0 when it has none.
JoinedPinned(e) ==
    IF CacheRowsOf(e) = {} THEN {FALSE} ELSE {(v \in pinned) : v \in CacheRowsOf(e)}

\* cloudfs cache evict <path>: refused when the joined row is pinned; else the
\* entry's cache directory and all its cache rows go.
RunCacheEvict(e) ==
    /\ Idle
    /\ e \in entries
    /\ \E sawPinned \in JoinedPinned(e) :
        IF sawPinned
        THEN /\ result' = Res("RunCacheEvict", e, FALSE, "Pinned")
             /\ UNCHANGED <<cacheFile, cliCacheFile, cacheRows, pinned>>
        ELSE /\ cacheFile' = [v \in Vids |-> IF v[1] = e THEN "absent" ELSE cacheFile[v]]
             /\ cliCacheFile' = [cliCacheFile EXCEPT ![e] = "absent"]
             /\ cacheRows' = [v \in Vids |-> IF v[1] = e THEN "none" ELSE cacheRows[v]]
             /\ pinned' = {v \in pinned : v[1] # e}
             /\ result' = Res("RunCacheEvict", e, TRUE, "")
    /\ UNCHANGED <<entries, nextEntryId, versions, placements, hydration, hydratedVer, trash,
                   nextTrashId, snapshots, providerRows, journal, realFile, realVer,
                   placeholderFile, remote, remoteDeletes, pc, cur>>

\* cloudfs repair: orphaned versions, cache rows and placements are deleted
\* from the index, and an entry with an active version and neither real file
\* nor placeholder gets its placeholder back.
RunRepair ==
    /\ Idle
    /\ LET vs == [v \in Vids |-> IF v[1] \in entries THEN versions[v] ELSE "none"]
       IN /\ versions' = vs
          /\ cacheRows' = [v \in Vids |-> IF vs[v] = "none" THEN "none" ELSE cacheRows[v]]
          /\ pinned' = {v \in pinned : vs[v] # "none"}
          /\ placements' = [p \in Pids |->
                              IF vs[p[1]] = "none" THEN "none" ELSE placements[p]]
          /\ placeholderFile' =
               [e \in EntryIds |->
                  IF /\ e \in entries
                     /\ GetActiveVersion(vs, e) # 0
                     /\ realFile[e] = "absent"
                  THEN TRUE ELSE placeholderFile[e]]
          /\ result' = Res("RunRepair", NoArg, TRUE, "")
    /\ UNCHANGED <<entries, nextEntryId, hydration, hydratedVer, trash, nextTrashId, snapshots,
                   providerRows, journal, realFile, realVer, cacheFile, cliCacheFile, remote,
                   remoteDeletes, pc, cur>>

\* cloudfs destroy: the configuration directory (index, journal, cache) and
\* every placeholder are removed; real files and remote objects stay.  No
\* command runs on what is left: the repository is gone.
RunDestroy ==
    /\ Idle
    /\ entries' = {}
    /\ nextEntryId' = 1
    /\ versions' = [v \in Vids |-> "none"]
    /\ placements' = [p \in Pids |-> "none"]
    /\ hydration' = [e \in EntryIds |-> "norow"]
    /\ hydratedVer' = [e \in EntryIds |-> 0]
    /\ cacheRows' = [v \in Vids |-> "none"]
    /\ pinned' = {}
    /\ trash' = {}
    /\ nextTrashId' = 1
    /\ snapshots' = <<>>
    /\ providerRows' = {}
    /\ journal' = <<>>
    /\ placeholderFile' = [e \in EntryIds |-> FALSE]
    /\ cacheFile' = [v \in Vids |-> "absent"]
    /\ cliCacheFile' = [e \in EntryIds |-> "absent"]
    /\ result' = Res("RunDestroy", NoArg, TRUE, "")
    /\ pc' = "destroyed"
    /\ UNCHANGED <<realFile, realVer, remote, remoteDeletes, cur>>

\* --------------------------------------------------------------- versions
\* IndexManager.CreateVersion: one INSERT with the state the caller gives;
\* UNIQUE(entry_id, version_num) rejects a number the entry already has.
\* Callers pass the id of an entry row.
CreateVersion(e, n, st) ==
    /\ Idle
    /\ e \in entries
    /\ IF versions[<<e, n>>] # "none"
       THEN /\ result' = Res("CreateVersion", <<e, n>>, FALSE, "Unique")
            /\ UNCHANGED versions
       ELSE /\ versions' = [versions EXCEPT ![<<e, n>>] = st]
            /\ result' = Res("CreateVersion", <<e, n>>, TRUE, "")
    /\ UNCHANGED <<entries, nextEntryId, placements, hydration, hydratedVer, cacheRows, pinned, trash,
                   nextTrashId, snapshots, providerRows, journal, fsVars, remote,
                   remoteDeletes, pc, cur>>

\* -------------------------------------------------------------- snapshots
\* A capture that links every version row, whatever its state.
CapturedEveryVersion(vs) == {v \in Vids : vs[v] # "none"}

\* INSERT INTO snapshot_versions ... SELECT ... WHERE v.state = 'active'
CapturedVersions(vs) == {v \in Vids : vs[v] = "active"}

\* GetRestorePreview's VersionChanges: the active versions the snapshot does
\* not link.
VersionChanges(vs, linked) == Cardinality({v \in Vids : vs[v] = "active" /\ v \notin linked})

\* SnapshotManager.Create: journal; in one transaction the snapshot row (its
\* name is unique) and a link to every active version.
SnapshotCreate(name) ==
    /\ Idle
    /\ CanBegin
    /\ \E txOk \in BOOLEAN :
        LET opID == NewOpId(journal)
            b == BeginOperation(journal, "snapshot_create")
            ok == txOk /\ name \notin DOMAIN snapshots
        IN /\ snapshots' = IF ok
                           THEN [s \in DOMAIN snapshots \cup {name} |->
                                   IF s = name THEN CapturedVersions(versions)
                                   ELSE snapshots[s]]
                           ELSE snapshots
           /\ journal' = IF ok THEN CompleteJournal(b, opID) ELSE RollbackOperation(b, opID)
           /\ result' = [Res("SnapshotCreate", name, ok, IF ok THEN "" ELSE "IO")
                           EXCEPT !.opId = opID]
    /\ UNCHANGED <<entries, nextEntryId, versions, placements, hydration, hydratedVer, cacheRows, pinned,
                   trash, nextTrashId, providerRows, fsVars, remote, remoteDeletes,
                   pc, cur>>

\* The two UPDATEs of SnapshotManager.Restore: active versions outside the
\* snapshot become superseded, then the snapshot's versions become active.
RestoreVersions(vs, linked) ==
    [v \in Vids |->
        IF v \in linked /\ vs[v] # "none" THEN "active"
        ELSE IF vs[v] = "active" THEN "superseded"
        ELSE vs[v]]

\* The active versions a Restore that directly follows the successful Create
\* of the same snapshot found.
SeenAfterCreate(name) ==
    IF result.op = "SnapshotCreate" /\ result.ok /\ result.arg = name
    THEN <<ActiveVersions>> ELSE <<>>

\* SnapshotManager.Restore: journal; the two UPDATEs in one transaction.
SnapshotRestore(name) ==
    /\ Idle
    /\ name \in DOMAIN snapshots
    /\ Len(journal) < MaxRestoreOps
    /\ \E txOk \in BOOLEAN :
        LET opID == NewOpId(journal)
            b == BeginOperation(journal, "snapshot_restore")
        IN /\ versions' = IF txOk THEN RestoreVersions(versions, snapshots[name])
                          ELSE versions
           /\ journal' = IF txOk THEN CompleteJournal(b, opID)
                         ELSE RollbackOperation(b, opID)
           /\ result' = [Res("SnapshotRestore", name, txOk, IF txOk THEN "" ELSE "IO")
                           EXCEPT !.opId = opID, !.seen = SeenAfterCreate(name)]
    /\ UNCHANGED <<entries, nextEntryId, placements, hydration, hydratedVer, cacheRows, pinned, trash,
                   nextTrashId, snapshots, providerRows, fsVars, remote, remoteDeletes,
                   pc, cur>>

\* ------------------------------------------ hydration and the journal
NextHydrate ==
    \/ RunAdd
    \/ \E p \in Providers : RunProviderAdd(p)
    \/ RunPush
    \/ \E e \in EntryIds : HydrateBegin(e)
    \/ HydrateSetHydrating
    \/ HydrateMkTemp
    \/ HydrateDownload
    \/ HydrateCachePut
    \/ HydrateSwap
    \/ HydrateUnlinkPlaceholder
    \/ HydrateSetHydrated
    \/ HydrateCommit
    \/ HydrateSync
    \/ Crash
    \/ \E e \in EntryIds : Dehydrate(e)
    \/ \E e \in EntryIds : RunDehydrate(e)
    \/ \E e \in EntryIds : RunHydrateBegin(e)
    \/ RunHydrateDownload
    \/ RunHydrateCreate
    \/ RunHydrateCopy
    \/ RunHydrateFinish
    \/ \E v \in Vids, confirmed \in BOOLEAN : Evict(v, confirmed)
    \/ RunJournalResume
    \/ \E opID \in 1..MaxOps : RunJournalRollback(opID)

SpecHydrate == Init /\ [][NextHydrate]_vars

\* ------------------------------------------------------------------------
\* C1: every state change of a journal entry is pending->committed,
\* committed->synced, pending->rolled_back or committed->rolled_back, and an
\* entry that is synced or rolled_back never changes again.
LegalTransitions ==
    {<<"pending", "committed">>, <<"committed", "synced">>,
     <<"pending", "rolled_back">>, <<"committed", "rolled_back">>}

JournalTransitionsLegal ==
    \A i \in 1..Len(journal) : journal[i].changes \subseteq LegalTransitions

\* C2: the real path of an entry is absent or holds the complete verified
\* content at every moment, whatever fails and wherever a crash falls.
RealPathNeverPartial ==
    \A e \in EntryIds : realFile[e] \in {"absent", VersionHash}

\* C3: when Hydrate reports success, hydration_state is hydrated, the real
\* file and the cache file exist, and the journal entry of the hydrate (if it
\* opened one) is synced.
HydrateSuccessIsComplete ==
    (result.op = "Hydrate" /\ result.ok) =>
        /\ getHydrationState(hydration, result.arg) = "hydrated"
        /\ realFile[result.arg] # "absent"
        /\ CacheGet(<<result.arg, GetActiveVersion(versions, result.arg)>>)
        /\ (result.opId # 0 => journal[result.opId].state = "synced")

\* C4: when Hydrate fails after its journal begin, hydration_state is
\* placeholder and the journal entry of that hydrate is rolled_back.
HydrateFailureReverts ==
    (result.op = "Hydrate" /\ ~result.ok /\ result.opId # 0) =>
        /\ getHydrationState(hydration, result.arg) = "placeholder"
        /\ journal[result.opId].state = "rolled_back"

\* ------------------------------------------------------ the coordinator
NextExecute ==
    \/ RunAdd
    \/ \E p \in Providers : RunProviderAdd(p)
    \/ RunPush
    \/ \E req \in SUBSET PlacementRows, confirmed \in BOOLEAN, dryRun \in BOOLEAN :
          req # {} /\ Execute(req, confirmed, dryRun)

SpecExecute == Init /\ [][NextExecute]_vars

\* ------------------------------------------------------- trash and purge
NextPurge ==
    \/ RunAdd
    \/ \E p \in Providers : RunProviderAdd(p)
    \/ RunPush
    \/ \E e \in EntryIds : MoveToTrash(e, 0)
    \/ \E e \in EntryIds : RunRm(e)
    \/ \E t \in 1..MaxTrash : Restore(t)
    \/ \E t \in 1..MaxTrash, confirmed \in BOOLEAN : Purge(t, confirmed)
    \/ \E confirmed \in BOOLEAN : PurgeAll(confirmed)
    \/ \E confirmed \in BOOLEAN : PurgeExpired(confirmed)
    \/ TimePasses
    \/ \E req \in SUBSET PlacementRows, confirmed \in BOOLEAN, dryRun \in BOOLEAN :
          req # {} /\ Execute(req, confirmed, dryRun)
    \/ RunTrashPurgeBegin
    \/ RunTrashPurgeExecute
    \/ RunTrashPurgePurgeAll
    \/ Crash

SpecPurge == Init /\ [][NextPurge]_vars

\* ------------------------------------------- every command that removes
NextRemove ==
    \/ RunAdd
    \/ \E p \in Providers : RunProviderAdd(p)
    \/ RunPush
    \/ \E e \in EntryIds : RunRm(e)
    \/ \E t \in 1..MaxTrash : Purge(t, TRUE)
    \/ PurgeAll(TRUE)
    \/ PurgeExpired(TRUE)
    \/ TimePasses
    \/ \E req \in SUBSET PlacementRows : req # {} /\ Execute(req, TRUE, FALSE)
    \/ RunTrashPurgeBegin
    \/ RunTrashPurgeExecute
    \/ RunTrashPurgePurgeAll
    \/ \E e \in EntryIds : RunCacheEvict(e)
    \/ RunRepair
    \/ RunDestroy
    \/ \E p \in Providers : RunProviderRemove(p)

SpecRemove == Init /\ [][NextRemove]_vars

\* ------------------------------------------------------------------------
\* C5: a remote delete is issued, and a remote object disappears, only in a
\* step of the delete coordinator's Execute (called directly or from the
\* loop of RunTrashPurge); purge, rm, destroy, repair, provider removal and
\* cache eviction issue none.
ExecuteStep ==
    \/ result'.op = "Execute"
    \/ pc = "tp_exec" /\ pc' = "tp_exec"

PurgeOps == {"Purge", "PurgeAll", "PurgeExpired"}

CoordinatorBeforePurge ==
    [][(result'.op \in PurgeOps /\ result'.ok) =>
         \A r \in trash \ trash' :
            \A p \in PlacementRows :
               p[1][1] = r.e => <<"Execute", p>> \in remoteDeletes]_vars

\* C7: after a confirmed purge during which the remote delete of a placement
\* failed, that placement's row is degraded and its entry row still exists.
FailedDeleteKeepsEntry ==
    (result.op = "RunTrashPurge") =>
        \A p \in result.failedSet :
            placements[p] = "degraded" /\ p[1][1] \in entries

RefusedOps == {"Execute", "Purge", "PurgeAll", "PurgeExpired"}

UnconfirmedChangesNothing ==
    [][(result'.op \in RefusedOps /\ ~result'.confirmed) =>
         /\ ~result'.ok
         /\ result'.err = "NeedsConfirmation"
         /\ UNCHANGED <<indexVars, journal, fsVars, remote, remoteDeletes>>]_vars

\* An unconfirmed purge was refused while the trash held a row whose entry
\* has a remote placement.
PurgeRefused ==
    /\ result.op = "Purge" /\ ~result.confirmed
    /\ \E r \in trash : \E p \in PlacementRows : p[1][1] = r.e /\ remote[p]

\* ----------------------------------------------- versions and snapshots
VersionStates == {"active", "superseded", "incomplete"}

NextVersions ==
    \/ RunAdd
    \/ \E e \in EntryIds, n \in VerNums, st \in VersionStates : CreateVersion(e, n, st)
    \/ \E e \in EntryIds : MoveToTrash(e, 0)
    \/ \E t \in 1..MaxTrash : Restore(t)
    \/ \E name \in SnapNames : SnapshotCreate(name)
    \/ \E name \in SnapNames : SnapshotRestore(name)

SpecVersions == Init /\ [][NextVersions]_vars

\* C10: each entry has at most one version in state active, in every state
\* that CreateVersion, MoveToTrash, trash Restore, snapshot Create and
\* snapshot Restore can reach.
AtMostOneActive ==
    \A e \in EntryIds : Cardinality(ActiveNums(versions, e)) <= 1

\* ------------------------------------------- the journal manager by itself
\* What the ORDER BY created_at ASC of the pending-operations query can
\* return: the pending and committed rows in any order that does not put a
\* later second before an earlier one; rows of the same second come in the
\* order the index scan and the sorter leave them in.
PendingOrders(j) ==
    LET ids == GetPendingOperations(j)
        n == Cardinality(ids)
    IN {s \in [1..n -> ids] :
          /\ \A a, b \in 1..n : a # b => s[a] # s[b]
          /\ \A a, b \in 1..n : a < b => j[s[a]].created <= j[s[b]].created}

OtherVars ==
    <<indexVars, fsVars, remote, remoteDeletes, pc, cur>>

\* JournalManager.BeginOperation in the second of the previous begin or in a
\* later one.
JournalBegin ==
    /\ Idle
    /\ CanBegin
    /\ \E sameSecond \in BOOLEAN :
         journal' = BeginOperationAt(journal, "op",
                       LastSecond(journal) + (IF sameSecond THEN 0 ELSE 1))
    /\ result' = [Res("BeginOperation", NoArg, TRUE, "") EXCEPT !.opId = NewOpId(journal)]
    /\ UNCHANGED OtherVars

\* The calls a command makes on the operation it began: commit while it is
\* pending, sync once committed, rollback before it is synced.
JournalCommit(opID) ==
    /\ Idle
    /\ opID \in 1..Len(journal) /\ journal[opID].state = "pending"
    /\ journal' = CommitOperation(journal, opID)
    /\ result' = [Res("CommitOperation", NoArg, TRUE, "") EXCEPT !.opId = opID]
    /\ UNCHANGED OtherVars

JournalSync(opID) ==
    /\ Idle
    /\ opID \in 1..Len(journal) /\ journal[opID].state = "committed"
    /\ journal' = SyncOperation(journal, opID)
    /\ result' = [Res("SyncOperation", NoArg, TRUE, "") EXCEPT !.opId = opID]
    /\ UNCHANGED OtherVars

JournalRollback(opID) ==
    /\ Idle
    /\ opID \in GetPendingOperations(journal)
    /\ journal' = RollbackOperation(journal, opID)
    /\ result' = [Res("RollbackOperation", NoArg, TRUE, "") EXCEPT !.opId = opID]
    /\ UNCHANGED OtherVars

\* CommitOperation, SyncOperation or RollbackOperation called with an
\* operation id no row has: the UPDATE matches no row, Exec returns no error
\* and the number of rows affected is not read, so the call returns nil.
JournalCallUnknown(call, opID) ==
    /\ Idle
    /\ opID \notin 1..Len(journal)
    /\ journal' = (CASE call = "CommitOperation" -> CommitOperation(journal, opID)
                    [] call = "SyncOperation" -> SyncOperation(journal, opID)
                    [] OTHER -> RollbackOperation(journal, opID))
    /\ result' = [Res(call, NoArg, TRUE, "") EXCEPT !.opId = opID]
    /\ UNCHANGED OtherVars

\* The process stops, the index is opened again and GetPendingOperations is
\* called: the rows are on disk as they were, the result lists id and state.
ReopenAndList ==
    /\ Idle
    /\ \E s \in PendingOrders(journal) :
         result' = Res("GetPendingOperations",
                       [i \in DOMAIN s |-> <<s[i], journal[s[i]].state>>], TRUE, "")
    /\ UNCHANGED <<journal, OtherVars>>

NextJournal ==
    \/ JournalBegin
    \/ \E opID \in 1..MaxOps : JournalCommit(opID)
    \/ \E opID \in 1..MaxOps : JournalSync(opID)
    \/ \E opID \in 1..MaxOps : JournalRollback(opID)
    \/ \E call \in {"CommitOperation", "SyncOperation", "RollbackOperation"} :
         \E opID \in 1..MaxOps : JournalCallUnknown(call, opID)
    \/ ReopenAndList

SpecJournal == Init /\ [][NextJournal]_vars

\* ------------------------------------------------- dehydration by itself
NextDehydrate ==
    \/ RunAdd
    \/ \E p \in Providers : RunProviderAdd(p)
    \/ RunPush
    \/ \E e \in EntryIds, n \in VerNums, st \in VersionStates : CreateVersion(e, n, st)
    \/ \E e \in EntryIds : Dehydrate(e)
    \/ \E e \in EntryIds : RunDehydrate(e)

SpecDehydrate == Init /\ [][NextDehydrate]_vars

\* ------------------------------------ hydration and dehydration in turn
NextRoundTrip ==
    \/ RunAdd
    \/ \E p \in Providers : RunProviderAdd(p)
    \/ RunPush
    \/ \E e \in EntryIds, n \in VerNums, st \in VersionStates : CreateVersion(e, n, st)
    \/ \E e \in EntryIds : HydrateBegin(e)
    \/ HydrateSetHydrating
    \/ HydrateMkTemp
    \/ HydrateDownload
    \/ HydrateCachePut
    \/ HydrateSwap
    \/ HydrateUnlinkPlaceholder
    \/ HydrateSetHydrated
    \/ HydrateCommit
    \/ HydrateSync
    \/ \E e \in EntryIds : Dehydrate(e)
    \/ Checkpoint

SpecRoundTrip == Init /\ [][NextRoundTrip]_vars

\* ------------------------------------ commands that only read an entry
\* os.ReadFile of <root>/<name>.cloudfs with automatic hydration on access
AccessHydrates(e) ==
    /\ Idle
    /\ e \in entries /\ placeholderFile[e]
    /\ realFile' = [realFile EXCEPT ![e] = "good"]
    /\ result' = Res("ReadPlaceholder", e, TRUE, "")
    /\ UNCHANGED <<indexVars, journal, realVer, placeholderFile, cacheFile, cliCacheFile,
                   remote, remoteDeletes, pc, cur>>

\* os.ReadFile of <root>/<name>.cloudfs: the placeholder is a regular file
\* of JSON, reading it runs no code of the program.
ReadPlaceholder(e) ==
    /\ Idle
    /\ e \in entries /\ placeholderFile[e]
    /\ result' = Res("ReadPlaceholder", e, TRUE, "")
    /\ UNCHANGED <<indexVars, fsVars, journal, remote, remoteDeletes, pc, cur>>

\* CacheManager.Get of a version: a SELECT and a Stat; the UPDATE it starts
\* sets last_accessed only.
GetCachePath(v) ==
    /\ Idle
    /\ v[1] \in entries
    /\ result' = Res("Get", v, CacheGet(v), "")
    /\ UNCHANGED <<indexVars, fsVars, journal, remote, remoteDeletes, pc, cur>>

\* cloudfs ls: one SELECT over entries and their active versions.
RunLs ==
    /\ Idle
    /\ result' = Res("RunLs", entries, TRUE, "")
    /\ UNCHANGED <<indexVars, fsVars, journal, remote, remoteDeletes, pc, cur>>

NextAccess ==
    \/ RunAdd
    \/ \E p \in Providers : RunProviderAdd(p)
    \/ RunPush
    \/ \E e \in EntryIds : Dehydrate(e)
    \/ \E e \in EntryIds : HydrateBegin(e)
    \/ HydrateSetHydrating
    \/ HydrateMkTemp
    \/ HydrateDownload
    \/ HydrateCachePut
    \/ HydrateSwap
    \/ HydrateUnlinkPlaceholder
    \/ HydrateSetHydrated
    \/ HydrateCommit
    \/ HydrateSync
    \/ \E e \in EntryIds : RunHydrateBegin(e)
    \/ RunHydrateDownload
    \/ RunHydrateCreate
    \/ RunHydrateCopy
    \/ RunHydrateFinish
    \/ RunRepair
    \/ \E e \in EntryIds : ReadPlaceholder(e)
    \/ \E v \in Vids : GetCachePath(v)
    \/ RunLs

SpecAccess == Init /\ [][NextAccess]_vars

\* ------------------------------------------- hydration under cancellation
NextCancel ==
    \/ RunAdd
    \/ \E p \in Providers : RunProviderAdd(p)
    \/ RunPush
    \/ \E e \in EntryIds : Dehydrate(e)
    \/ \E e \in EntryIds : HydrateBegin(e)
    \/ HydrateSetHydrating
    \/ HydrateMkTemp
    \/ HydrateDownload
    \/ HydrateCachePut
    \/ HydrateSwap
    \/ HydrateUnlinkPlaceholder
    \/ HydrateSetHydrated
    \/ HydrateCommit
    \/ HydrateSync
    \/ Cancel

SpecCancel == Init /\ [][NextCancel]_vars

\* ------------------------------------ snapshots beside removal and repair
NextSnapshots ==
    \/ RunAdd
    \/ \E e \in EntryIds, n \in VerNums, st \in VersionStates : CreateVersion(e, n, st)
    \/ \E name \in SnapNames : SnapshotCreate(name)
    \/ \E name \in SnapNames : SnapshotRestore(name)
    \/ \E e \in EntryIds : RunRm(e)
    \/ \E t \in 1..MaxTrash : Restore(t)
    \/ \E t \in 1..MaxTrash : Purge(t, TRUE)
    \/ RunRepair

SpecSnapshots == Init /\ [][NextSnapshots]_vars

\* ------------------------------------------------------------ the cache
NextCache ==
    \/ RunAdd
    \/ \E e \in EntryIds : Pin(e)
    \/ \E e \in EntryIds : Unpin(e)
    \/ \E e \in EntryIds : RunPin(e)
    \/ \E e \in EntryIds : RunUnpin(e)
    \/ \E v \in Vids, confirmed \in BOOLEAN : Evict(v, confirmed)
    \/ \E e \in EntryIds : RunCacheEvict(e)
    \/ \E confirmed \in BOOLEAN : RunCacheClear(confirmed)
    \/ \E e \in EntryIds : RunRm(e)
    \/ \E t \in 1..MaxTrash : Purge(t, TRUE)
    \/ RunRepair

SpecCache == Init /\ [][NextCache]_vars

\* ------------------------------------------------- Cache.Get by itself
\* CHECK(state IN ('valid', 'stale', 'pending_eviction')) of cache_entries.
CacheRowStates == {"valid", "stale", "pending_eviction"}

\* CacheManager.Get as a function of the state column of the row ("norow"
\* when the query finds none) and of whether the file at cache_path exists:
\* SELECT ... AND state != 'pending_eviction', then os.Stat.
CacheManagerGet(rowState, fileExists) ==
    IF rowState \in {"norow", "pending_eviction"} THEN "absent"
    ELSE IF ~fileExists THEN "absent"
    ELSE "path"

\* An index holding one entry with one version and any cache row the schema
\* allows for it, with or without the file the row points to.
InitGet ==
    \E v \in Vids, st \in CacheRowStates \cup {"norow"}, file \in BOOLEAN, pin \in BOOLEAN :
        /\ st = "norow" => ~pin
        /\ entries = {v[1]}
        /\ nextEntryId = v[1] + 1
        /\ versions = [w \in Vids |-> IF w = v THEN "active" ELSE "none"]
        /\ placements = [p \in Pids |-> "none"]
        /\ hydration = [e \in EntryIds |-> "norow"]
        /\ hydratedVer = [e \in EntryIds |-> 0]
        /\ cacheRows = [w \in Vids |-> IF w = v /\ st # "norow" THEN "data" ELSE "none"]
        /\ pinned = IF pin THEN {v} ELSE {}
        /\ trash = {}
        /\ nextTrashId = 1
        /\ snapshots = <<>>
        /\ providerRows = {}
        /\ journal = <<>>
        /\ realFile = [e \in EntryIds |-> "absent"]
        /\ realVer = [e \in EntryIds |-> 0]
        /\ placeholderFile = [e \in EntryIds |-> FALSE]
        /\ cacheFile = [w \in Vids |-> IF w = v /\ file THEN "good" ELSE "absent"]
        /\ cliCacheFile = [e \in EntryIds |-> "absent"]
        /\ remote = [p \in Pids |-> FALSE]
        /\ remoteDeletes = {}
        /\ pc = "idle"
        /\ cur = [op |-> "Get", v |-> v, state |-> st]
        /\ result = Res("init", NoArg, TRUE, "")

\* Cache.Get(entry, version): what it returns is kept in result.seen.
Get ==
    /\ Idle
    /\ cur.op = "Get"
    /\ result' = [Res("Get", cur.v, TRUE, "")
                     EXCEPT !.seen = <<CacheManagerGet(cur.state, cacheFile[cur.v] # "absent")>>]
    /\ UNCHANGED <<indexVars, journal, fsVars, remote, remoteDeletes, pc, cur>>

NextGet == Get

SpecGet == InitGet /\ [][NextGet]_vars

\* ------------------------------------------------------- health score
\* calculateHealthScore, in tenths: 1.0 is 10.  Its inputs are the number of
\* placement rows of the active version and MAX(verified_at), which is NULL
\* ("never"), a text that time.Parse(time.RFC3339, ...) rejects
\* ("unparsable") or a time a whole number of days ago ("days":
\* time.Since(t).Hours() / 24 cut to an int).
calculateHealthScore(replicationCount, lastVerified) ==
    IF replicationCount = 0 THEN 2
    ELSE LET low == IF replicationCount < 2 THEN 2 ELSE 0
             age == IF lastVerified[1] = "never" THEN 4
                    ELSE IF lastVerified[1] = "unparsable" THEN 0
                    ELSE IF lastVerified[2] > 30 THEN 3
                    ELSE IF lastVerified[2] > 7 THEN 1
                    ELSE 0
             score == 10 - low - age
         IN IF score < 0 THEN 0 ELSE score

\* An empty index and one pair of inputs for calculateHealthScore.
InitHealth ==
    \E c \in 0..MaxPlacementCount,
       a \in {<<"never", 0>>, <<"unparsable", 0>>} \cup {<<"days", d>> : d \in 0..MaxAgeDays} :
        /\ entries = {}
        /\ nextEntryId = 1
        /\ versions = [w \in Vids |-> "none"]
        /\ placements = [p \in Pids |-> "none"]
        /\ hydration = [e \in EntryIds |-> "norow"]
        /\ hydratedVer = [e \in EntryIds |-> 0]
        /\ cacheRows = [w \in Vids |-> "none"]
        /\ pinned = {}
        /\ trash = {}
        /\ nextTrashId = 1
        /\ snapshots = <<>>
        /\ providerRows = {}
        /\ journal = <<>>
        /\ realFile = [e \in EntryIds |-> "absent"]
        /\ realVer = [e \in EntryIds |-> 0]
        /\ placeholderFile = [e \in EntryIds |-> FALSE]
        /\ cacheFile = [w \in Vids |-> "absent"]
        /\ cliCacheFile = [e \in EntryIds |-> "absent"]
        /\ remote = [p \in Pids |-> FALSE]
        /\ remoteDeletes = {}
        /\ pc = "idle"
        /\ cur = [op |-> "Health", count |-> c, verified |-> a]
        /\ result = Res("init", NoArg, TRUE, "")

\* GetEntryHealth computing the score of the entry it was asked about; the
\* score is kept in result.seen.
GetEntryHealth ==
    /\ Idle
    /\ cur.op = "Health"
    /\ result' = [Res("calculateHealthScore", <<cur.count, cur.verified>>, TRUE, "")
                     EXCEPT !.seen = <<calculateHealthScore(cur.count, cur.verified)>>]
    /\ UNCHANGED <<indexVars, journal, fsVars, remote, remoteDeletes, pc, cur>>

SpecHealth == InitHealth /\ [][GetEntryHealth]_vars

\* ------------------------------------------- callers running concurrently
\* Every component guards its methods with a mutex of its own: hc of the
\* HydrationController (sync.Mutex), tm of the TrashManager, cm of the
\* CacheManager, pm of the PlaceholderManager, im of the IndexManager and hm
\* of the HealthManager (sync.RWMutex).  A method is written as the sequence
\* of its lock calls, journal calls and accesses to the state of a component,
\* each <<kind, mutex or journal operation type, entry>>, on the path on which
\* nothing fails.
\* Hydrate: hc.mu for the whole call; inside it index.GetEntry and
\* GetActiveVersion (im read lock), getHydrationState, journal begin,
\* setHydrationState, cache.Put (cm), AtomicSwap (pm), setHydrationState,
\* commit and sync.
HydrateProgram(e) ==
    << <<"Lock", "hc", 0>>,
       <<"RLock", "im", 0>>, <<"Read", "im", e>>, <<"RUnlock", "im", 0>>,
       <<"Read", "hc", e>>,
       <<"Begin", "hydrate", e>>,
       <<"Write", "hc", e>>,
       <<"Lock", "cm", 0>>, <<"Write", "cm", e>>, <<"Unlock", "cm", 0>>,
       <<"Lock", "pm", 0>>, <<"Write", "pm", e>>, <<"Unlock", "pm", 0>>,
       <<"Write", "hc", e>>,
       <<"End", "hydrate", e>>,
       <<"Unlock", "hc", 0>> >>

\* MoveToTrash: tm.mu for the whole call.
MoveToTrashProgram(e) ==
    << <<"Lock", "tm", 0>>,
       <<"Begin", "trash_move", e>>,
       <<"Read", "tm", e>>, <<"Write", "tm", e>>,
       <<"End", "trash_move", e>>,
       <<"Unlock", "tm", 0>> >>

\* RestoreByPath: looks the trash row up under tm.mu, unlocks, calls Restore
\* (which locks and unlocks tm.mu itself); the deferred Lock and Unlock run
\* on return.
RestoreByPathProgram(e) ==
    << <<"Lock", "tm", 0>>, <<"Read", "tm", e>>, <<"Unlock", "tm", 0>>,
       <<"Lock", "tm", 0>>,
       <<"Read", "tm", e>>,
       <<"Begin", "trash_restore", e>>,
       <<"Write", "tm", e>>,
       <<"End", "trash_restore", e>>,
       <<"Unlock", "tm", 0>>,
       <<"Lock", "tm", 0>>, <<"Unlock", "tm", 0>> >>

\* Validate: counts the orphaned versions and updates index_meta, under the
\* reader lock.
ValidateProgram ==
    << <<"RLock", "im", 0>>, <<"Read", "im", 0>>, <<"Write", "im", 0>>,
       <<"RUnlock", "im", 0>> >>

\* CacheManager.Get: the lookup under the reader lock; updateLastAccessed,
\* started with go, takes the writer lock and can have it only once the
\* reader lock is released.
GetProgram(e) ==
    << <<"RLock", "cm", 0>>, <<"Read", "cm", e>>, <<"RUnlock", "cm", 0>>,
       <<"Lock", "cm", 0>>, <<"Write", "cm", e>>, <<"Unlock", "cm", 0>> >>

\* ListFilesystemState: walks the root under the reader lock and calls
\* ReadPlaceholder, which takes the reader lock again, for a placeholder.
ListFilesystemStateProgram ==
    << <<"RLock", "pm", 0>>, <<"Read", "pm", 0>>,
       <<"RLock", "pm", 0>>, <<"Read", "pm", 0>>, <<"RUnlock", "pm", 0>>,
       <<"RUnlock", "pm", 0>> >>

\* GetHealthByPath: the lookup under the reader lock, RUnlock, GetEntryHealth
\* (reader lock of its own); the deferred RLock and RUnlock run on return.
GetHealthByPathProgram(e) ==
    << <<"RLock", "hm", 0>>, <<"Read", "hm", e>>, <<"RUnlock", "hm", 0>>,
       <<"RLock", "hm", 0>>, <<"Read", "hm", e>>, <<"RUnlock", "hm", 0>>,
       <<"RLock", "hm", 0>>, <<"RUnlock", "hm", 0>> >>

\* No call is running, no mutex is held; the index is empty.
InitLocks ==
    LET Mutexes == {"hc", "tm", "cm", "pm", "im", "hm"}
        Threads == 1..MaxThreads
    IN
    /\ entries = {}
    /\ nextEntryId = 1
    /\ versions = [w \in Vids |-> "none"]
    /\ placements = [p \in Pids |-> "none"]
    /\ hydration = [e \in EntryIds |-> "norow"]
    /\ hydratedVer = [e \in EntryIds |-> 0]
    /\ cacheRows = [w \in Vids |-> "none"]
    /\ pinned = {}
    /\ trash = {}
    /\ nextTrashId = 1
    /\ snapshots = <<>>
    /\ providerRows = {}
    /\ journal = <<>>
    /\ realFile = [e \in EntryIds |-> "absent"]
    /\ realVer = [e \in EntryIds |-> 0]
    /\ placeholderFile = [e \in EntryIds |-> FALSE]
    /\ cacheFile = [w \in Vids |-> "absent"]
    /\ cliCacheFile = [e \in EntryIds |-> "absent"]
    /\ remote = [p \in Pids |-> FALSE]
    /\ remoteDeletes = {}
    /\ pc = "idle"
    /\ cur = [op |-> "threads",
              calls |-> 0,
              name |-> [t \in Threads |-> "none"],   \* the method a caller is in
              comp |-> [t \in Threads |-> "none"],   \* the mutex of its component
              mutating |-> [t \in Threads |-> FALSE],
              prog |-> [t \in Threads |-> <<>>],     \* what is left of it
              accessed |-> [t \in Threads |-> FALSE],
              ids |-> [t \in Threads |-> <<>>],      \* the journal rows it began
              open |-> [t \in Threads |-> 0],        \* the entry of its open journal row
              writer |-> [m \in Mutexes |-> 0],
              readers |-> [m \in Mutexes |-> [t \in Threads |-> 0]],
              waiting |-> [m \in Mutexes |-> {}]]
    /\ result = Res("init", NoArg, TRUE, "")

\* A caller with no call running calls a public method.
Call(t, name, m, p) ==
    /\ cur.op = "threads"
    /\ cur.prog[t] = <<>>
    /\ cur.calls < MaxCalls
    /\ LET begins(q) == Cardinality({i \in 1..Len(q) : q[i][1] = "Begin"})
       IN Len(journal) + begins(p) + begins(cur.prog[3 - t]) <= MaxOps
    /\ cur' = [cur EXCEPT !.calls = @ + 1,
                          !.name[t] = name,
                          !.comp[t] = m,
                          !.mutating[t] = \E i \in 1..Len(p) : p[i][1] = "Write" /\ p[i][2] = m,
                          !.prog[t] = p,
                          !.accessed[t] = FALSE,
                          !.ids[t] = <<>>]
    /\ result' = Running
    /\ UNCHANGED <<indexVars, journal, fsVars, remote, remoteDeletes, pc>>

\* sync.Mutex and sync.RWMutex: Lock first announces itself and then waits
\* until no writer and no reader holds the mutex; RLock waits while a writer
\* holds the mutex or has announced itself.  Nothing else waits.
CanStep(t) ==
    /\ cur.prog[t] # <<>>
    /\ LET i == Head(cur.prog[t])
       IN /\ (i[1] = "Lock" /\ t \in cur.waiting[i[2]]) =>
                 /\ cur.writer[i[2]] = 0
                 /\ \A u \in 1..MaxThreads : cur.readers[i[2]][u] = 0
          /\ i[1] = "RLock" => (cur.writer[i[2]] = 0 /\ cur.waiting[i[2]] = {})

\* The next step of a caller's method.
Step(t) ==
    /\ cur.op = "threads"
    /\ CanStep(t)
    /\ LET i == Head(cur.prog[t])
           k == i[1]
           m == i[2]
           announce == k = "Lock" /\ t \notin cur.waiting[m]
           left == IF announce THEN cur.prog[t] ELSE Tail(cur.prog[t])
       IN /\ cur' = [cur EXCEPT
                !.prog[t] = left,
                !.waiting = IF k = "Lock"
                            THEN [@ EXCEPT ![m] = IF announce THEN @ \cup {t} ELSE @ \ {t}]
                            ELSE @,
                !.writer = IF k = "Lock" /\ ~announce THEN [@ EXCEPT ![m] = t]
                           ELSE IF k = "Unlock" THEN [@ EXCEPT ![m] = 0]
                           ELSE @,
                !.readers = IF k = "RLock" THEN [@ EXCEPT ![m][t] = @ + 1]
                            ELSE IF k = "RUnlock" THEN [@ EXCEPT ![m][t] = @ - 1]
                            ELSE @,
                !.accessed[t] = @ \/ (k \in {"Read", "Write"} /\ m = cur.comp[t]),
                !.ids[t] = IF k = "Begin" THEN Append(@, NewOpId(journal)) ELSE @,
                !.open[t] = IF k = "Begin" THEN i[3] ELSE IF k = "End" THEN 0 ELSE @,
                !.name[t] = IF left = <<>> THEN "none" ELSE @]
          /\ journal' = IF k = "Begin"
                        THEN WithPayload(BeginOperation(journal, m), NewOpId(journal), i[3])
                        ELSE IF k = "End"
                        THEN CompleteJournal(journal, cur.ids[t][Len(cur.ids[t])])
                        ELSE journal
          /\ result' = IF left = <<>> THEN Res(cur.name[t], t, TRUE, "") ELSE Running
    /\ UNCHANGED <<indexVars, fsVars, remote, remoteDeletes, pc>>

NextLocks ==
    \/ \E t \in 1..MaxThreads, e \in EntryIds : Call(t, "Hydrate", "hc", HydrateProgram(e))
    \* HydrateBatch of the entries 1 and 2: a loop of Hydrate calls
    \/ \E t \in 1..MaxThreads :
          Call(t, "HydrateBatch", "hc", HydrateProgram(1) \o HydrateProgram(2))
    \/ \E t \in 1..MaxThreads, e \in EntryIds : Call(t, "MoveToTrash", "tm", MoveToTrashProgram(e))
    \/ \E t \in 1..MaxThreads, e \in EntryIds : Call(t, "RestoreByPath", "tm", RestoreByPathProgram(e))
    \/ \E t \in 1..MaxThreads : Call(t, "Validate", "im", ValidateProgram)
    \/ \E t \in 1..MaxThreads, e \in EntryIds : Call(t, "Get", "cm", GetProgram(e))
    \/ \E t \in 1..MaxThreads : Call(t, "ListFilesystemState", "pm", ListFilesystemStateProgram)
    \/ \E t \in 1..MaxThreads, e \in EntryIds :
          Call(t, "GetHealthByPath", "hm", GetHealthByPathProgram(e))
    \/ \E t \in 1..MaxThreads : Step(t)

SpecLocks == InitLocks /\ [][NextLocks]_vars

\* ---------------------------------------------------- placement planner
PlanProviders == {"p1", "p2"}

\* An active provider as Plan sees it: whether hard_limit is set, the free
\* space rclone reports now, and whether the provider is configured to
\* require encryption.
ProviderInfos == [hardLimit : BOOLEAN, free : 0..MaxFree, requiresEncryption : BOOLEAN]

\* ProviderInfo.RequiresEncryption as getActiveProviders fills it: the query
\* selects id, name, type, status, priority, soft_limit, hard_limit and the
\* remote, so the field keeps its zero value.
LoadedRequiresEncryption(info) == FALSE

\* The two hard constraints of Plan, in its order.
PlanRejects(info, fileSize, encrypted) ==
    \/ LoadedRequiresEncryption(info) /\ ~encrypted
    \/ info.hardLimit /\ info.free < fileSize

\* PlacementPlanner.Plan: every active provider is either rejected or
\* selected; the plan is rejected when nothing is selected.
Plan(infos, fileSize, encrypted) ==
    /\ Idle
    /\ LET rejected == {p \in PlanProviders : PlanRejects(infos[p], fileSize, encrypted)}
           selected == PlanProviders \ rejected
       IN result' = [Res("Plan", <<infos, fileSize, encrypted>>, selected # {}, "")
                        EXCEPT !.seen = <<selected, rejected>>]
    /\ UNCHANGED <<indexVars, journal, fsVars, remote, remoteDeletes, pc, cur>>

\* PlacementPlanner.Revalidate of the plan just made or just revalidated:
\* for each selected provider the remote is looked up and the free space
\* queried again; an error of either, or too little space, fails it.
Revalidate(free, queryOk) ==
    /\ Idle
    /\ result.op \in {"Plan", "Revalidate"}
    /\ LET selected == result.seen[1]
           fileSize == result.arg[2]
           ok == \A p \in selected : queryOk /\ free[p] >= fileSize
       IN result' = [Res("Revalidate", <<free, fileSize>>, ok,
                         IF ok THEN "" ELSE IF queryOk THEN "NoSpace" ELSE "IO")
                        EXCEPT !.seen = <<selected, {}>>]
    /\ UNCHANGED <<indexVars, journal, fsVars, remote, remoteDeletes, pc, cur>>

NextPlanner ==
    \/ \E infos \in [PlanProviders -> ProviderInfos], fileSize \in 1..MaxFree,
          encrypted \in BOOLEAN : Plan(infos, fileSize, encrypted)
    \/ \E free \in [PlanProviders -> 0..MaxFree], queryOk \in BOOLEAN :
          Revalidate(free, queryOk)
    \/ RunAdd
    \/ \E p \in Providers : RunProviderAdd(p)
    \/ RunPush

SpecPlanner == Init /\ [][NextPlanner]_vars

\* C11: for every trash row the entry row exists, the version the row refers
\* to exists, and every version of that entry is in state deleted.
TrashedEntryIntact ==
    \A r \in trash :
        /\ r.e \in entries
        /\ r.ver # 0 => versions[<<r.e, r.ver>>] # "none"
        /\ \A n \in VerNums : versions[<<r.e, n>>] \in {"none", "deleted"}

\* C12: a step that removes a version row (other than destroy, which removes
\* the whole index at once) finds no placement row, no cache row and no
\* snapshot link referring to that version.
Referenced(v) ==
    \/ \E p \in Providers : placements[<<v, p>>] # "none"
    \/ cacheRows[v] # "none"
    \/ \E s \in DOMAIN snapshots : v \in snapshots[s]

NoReferencedVersionRemoved ==
    [][pc' # "destroyed" =>
         \A v \in Vids :
            (versions[v] # "none" /\ versions'[v] = "none") => ~Referenced(v)]_vars

\* C13: the pending-operations query after a reopen returns every pending
\* or committed journal entry with its state, in creation order, and no
\* synced or rolled_back entry.
PendingInCreationOrder(j) ==
    LET ids == GetPendingOperations(j)
    IN [k \in 1..Cardinality(ids) |->
          LET i == CHOOSE x \in ids : Cardinality({y \in ids : y < x}) = k - 1
          IN <<i, j[i].state>>]

PendingListComplete ==
    result.op = "GetPendingOperations" => result.arg = PendingInCreationOrder(journal)

\* C14: when the recovery pass (cloudfs journal resume) finds the latest
\* journal entry committed and that entry is a hydrate, it ends with the
\* entry's hydration_state hydrated or with the journal entry rolled_back.
RecoverySettlesCommitted ==
    [][(result'.op = "RunJournalResume" /\ journal # <<>>) =>
         LET i == Len(journal)
             e == journal[i].payload
         IN (journal[i].state = "committed" /\ e # 0) =>
               \/ hydration'[e] = "hydrated"
               \/ journal'[i].state = "rolled_back"]_vars

\* C15: when MoveToTrash, trash Restore, Purge, snapshot Create or snapshot
\* Restore fails after its journal begin, it returns the error, its journal
\* entry is rolled_back and the index rows are as they were before it.
JournaledOps == {"MoveToTrash", "Restore", "Purge", "SnapshotCreate", "SnapshotRestore"}

FailureLeavesIndexAsBefore ==
    [][(result'.op \in JournaledOps /\ ~result'.ok /\ result'.opId # 0) =>
         /\ result'.err # ""
         /\ journal'[result'.opId].state = "rolled_back"
         /\ UNCHANGED indexVars]_vars

\* C16: a step that changes an entry, version, placement, hydration or trash
\* row, swaps a real file, uploads or deletes remotely has a journal entry
\* of its own: one it has begun, or one that was pending when it started.
Explained == <<entries, versions, placements, hydration, trash, realFile, remote, remoteDeletes>>

MutationsAreJournaled ==
    [][Explained' # Explained =>
         \E i \in 1..Len(journal') :
            i > Len(journal) \/ journal[i].state = "pending"]_vars

\* C17: a real file at the path of an entry with an active version holds
\* the bytes of that version, complete and unaltered.  (Two versions of an
\* entry are different content: different fingerprints.)
RealFileMatchesActive ==
    \A e \in entries :
        LET n == GetActiveVersion(versions, e)
        IN (realFile[e] # "absent" /\ n # 0) =>
              realFile[e] = VersionHash /\ realVer[e] = n

\* C18: a dehydration of an entry whose active version has no placement row
\* fails and leaves the journal, the index and the files as they were.
DehydrateOps == {"Dehydrate", "RunDehydrate"}

NoPlacementNoDehydrate ==
    [][\A e \in entries :
          LET n == GetActiveVersion(versions, e)
          IN (/\ result'.op \in DehydrateOps /\ result'.arg = e
              /\ n # 0
              /\ \A p \in Providers : placements[<<<<e, n>>, p>>] = "none")
             => /\ ~result'.ok
                /\ UNCHANGED <<journal, indexVars, fsVars>>]_vars

\* C19: a Hydrate that directly follows a Dehydrate that directly followed a
\* Hydrate of the same entry, all three successful, ends in the observable
\* state the first Hydrate ended in.
HydrateDehydrateHydrate ==
    (result.op = "Hydrate" /\ result.ok /\ result.seen # <<>>) =>
        Observable(result.arg) = result.seen

\* C20: a Hydrate that returns success without a journal entry found the
\* entry recorded as hydrated for its currently active version.
ShortcutOnlyForActiveVersion ==
    (result.op = "Hydrate" /\ result.ok /\ result.opId = 0) =>
        /\ getHydrationState(hydration, result.arg) = "hydrated"
        /\ hydratedVer[result.arg] = GetActiveVersion(versions, result.arg)

\* C21: a Hydrate cancelled before the atomic swap ends with hydration_state
\* placeholder and its journal entry rolled_back; one cancelled after the
\* swap ends successfully with hydration_state hydrated and its journal
\* entry synced.
BeforeSwapPcs == {"h_set", "h_mktemp", "h_download", "h_put", "h_swap"}

CancelUnwindsOrCompletes ==
    (result.op = "Hydrate" /\ result.cancelAt # "none") =>
        IF result.cancelAt \in BeforeSwapPcs
        THEN /\ ~result.ok
             /\ getHydrationState(hydration, result.arg) = "placeholder"
             /\ journal[result.opId].state = "rolled_back"
        ELSE /\ result.ok
             /\ getHydrationState(hydration, result.arg) = "hydrated"
             /\ journal[result.opId].state = "synced"

\* C22: a successful snapshot Restore leaves every version of the snapshot
\* active and every other previously active version superseded, and changes
\* no cache row, placement row, file or remote object; a failed one changes
\* no version.
SnapshotRestoreSettles ==
    [][result'.op = "SnapshotRestore" =>
         /\ UNCHANGED <<cacheRows, pinned, placements, fsVars, remote, remoteDeletes>>
         /\ IF result'.ok
            THEN \A v \in Vids :
                    /\ v \in snapshots[result'.arg] => versions'[v] = "active"
                    /\ (versions[v] = "active" /\ v \notin snapshots[result'.arg])
                          => versions'[v] = "superseded"
            ELSE UNCHANGED versions]_vars

\* C23: right after a snapshot was created its restore preview counts zero
\* version changes, and a Restore that directly follows leaves the set of
\* active versions as it was.
CreateThenRestoreIsNoOp ==
    /\ (result.op = "SnapshotCreate" /\ result.ok) =>
           VersionChanges(versions, snapshots[result.arg]) = 0
    /\ (result.op = "SnapshotRestore" /\ result.ok /\ result.seen # <<>>) =>
           ActiveVersions = result.seen[1]

\* A snapshot taken while some version was active and another was not has
\* been restored right after its creation.
RestoredRightAfterCreate ==
    /\ result.op = "SnapshotRestore" /\ result.ok /\ result.seen # <<>>
    /\ result.seen[1] # {}
    /\ \E v \in Vids : versions[v] \in {"superseded", "incomplete", "deleted"}

\* C24: a Restore that directly follows the MoveToTrash of the same entry
\* leaves the set of active versions as it was before the MoveToTrash, and
\* leaves no trash row of that entry.
TrashThenRestoreIsNoOp ==
    (result.op = "Restore" /\ result.ok /\ result.seen # <<>>) =>
        /\ ActiveVersions = result.seen[1]
        /\ ~\E r \in trash : r.e = result.seen[2]

\* C25: a step in which a cache row or a cache file disappears is a confirmed
\* evict, a cache clear or a trash purge, and no step removes the row or the
\* file of a pinned cache entry.
CacheRemovers == {"Evict", "RunCacheEvict", "RunCacheClear", "Purge", "PurgeAll",
                  "PurgeExpired", "RunTrashPurge"}

CacheRemovedOnlyExplicitly ==
    [][/\ (\E v \in Vids : \/ (cacheRows[v] # "none" /\ cacheRows'[v] = "none")
                            \/ (cacheFile[v] # "absent" /\ cacheFile'[v] = "absent"))
            => (result'.op \in CacheRemovers /\ result'.confirmed)
       /\ \A v \in pinned :
            /\ cacheRows'[v] # "none"
            /\ (cacheFile[v] # "absent" => cacheFile'[v] # "absent")]_vars

PlanRespectsHardConstraints ==
    result.op = "Plan" =>
        \A p \in PlanProviders :
            LET info == result.arg[1][p]
            IN (info.free < result.arg[2] \/ (info.requiresEncryption /\ ~result.arg[3]))
                  => (p \notin result.seen[1] /\ p \in result.seen[2])

\* C29: a step of push that uploads starts right after a successful
\* Revalidate, and a Revalidate that finds a selected provider with less free
\* space than the file size fails.
PushRevalidates ==
    [][/\ (\E p \in Pids : ~remote[p] /\ remote'[p])
            => (result.op = "Revalidate" /\ result.ok)
       /\ (/\ result'.op = "Revalidate"
           /\ \E p \in result'.seen[1] : result'.arg[1][p] < result'.arg[2])
            => ~result'.ok]_vars

\* C30: removing a provider that some placement row refers to fails and
\* leaves the provider registered.
RemoveRefusedWhileReferenced ==
    [][(/\ result'.op = "RunProviderRemove"
        /\ \E v \in Vids : placements[<<v, result'.arg>>] # "none")
         => (~result'.ok /\ result'.arg \in providerRows')]_vars

\* C31: a journal commit, sync or rollback called with an operation id that no
\* row has fails with NotFound and changes no journal row.
UnknownOpIdIsNotFound ==
    [][(/\ result'.op \in {"CommitOperation", "SyncOperation", "RollbackOperation"}
        /\ result'.opId \notin 1..Len(journal))
         => (~result'.ok /\ result'.err = "NotFound" /\ journal' = journal)]_vars

\* C32: the hydration state of an entry leaves placeholder, and a real file
\* appears at its path, only in a step of a hydrate call for that entry; push,
\* reading the placeholder, cache Get, listing and repair do neither.
HydratedOnlyByHydrate ==
    [][\A e \in entries :
          (\/ /\ getHydrationState(hydration, e) = "placeholder"
              /\ getHydrationState(hydration', e) # "placeholder"
           \/ realFile[e] = "absent" /\ realFile'[e] # "absent")
            => (cur.op \in {"Hydrate", "RunHydrate"} /\ cur.e = e)]_vars

\* a Hydrate that ran all its steps has returned: the state is hydrated and
\* the real file is at the path
HydrateLeftPlaceholder ==
    /\ result.op = "Hydrate" /\ result.ok /\ result.opId # 0
    /\ hydration[result.arg] = "hydrated"
    /\ realFile[result.arg] = "good"

\* C33: the health score is 0.2 without placements and otherwise 1.0, minus
\* 0.2 with fewer than 2 placements, minus 0.3 when the last verification is
\* more than 30 days old or never happened, minus 0.1 when it is 7 to 30 days
\* old, and not below 0 (scores in tenths).
HealthScoreAsStated ==
    result.op = "calculateHealthScore" =>
        LET c == result.arg[1]
            a == result.arg[2]
            low == IF c < 2 THEN 2 ELSE 0
            age == IF a[1] = "never" THEN 3
                   ELSE IF a[1] = "unparsable" THEN 0
                   ELSE IF a[2] > 30 THEN 3
                   ELSE IF a[2] >= 7 THEN 1
                   ELSE 0
            stated == IF c = 0 THEN 2
                      ELSE IF 10 - low - age < 0 THEN 0 ELSE 10 - low - age
        IN result.seen[1] = stated

\* C34: a Hydrate that reports success has gone through journal begin, set
\* hydrating, download, hash verify, cache put, atomic swap, set hydrated,
\* commit and sync in this order, so it returns from the sync step with its
\* journal row taken from pending to committed to synced; and the journal row
\* of a hydrate is on durable storage before the hydration state, the cache row
\* or the file at the entry path changes.
HydrateStepsInOrder ==
    [][/\ (result'.op = "Hydrate" /\ result'.ok) =>
            /\ pc = "h_sync"
            /\ journal'[result'.opId].changes =
                  {<<"pending", "committed">>, <<"committed", "synced">>}
       /\ (/\ cur.op = "Hydrate"
           /\ \/ hydration'[cur.e] # hydration[cur.e]
              \/ cacheRows'[cur.v] # cacheRows[cur.v]
              \/ realFile'[cur.e] # realFile[cur.e])
            => journal[cur.opId].durable]_vars

\* C35: journaled operations on one entry never overlap in time, whichever
\* components they come from: no two callers have a journal row open for the
\* same entry.
JournaledOpsOfEntryNeverOverlap ==
    cur.op = "threads" =>
        \A t, u \in 1..MaxThreads :
            (t # u /\ cur.open[t] # 0) => cur.open[t] # cur.open[u]

\* C36: no two mutating public operations of one component overlap, and a
\* mutating public operation holds the writer lock of its component at each
\* of its reads and writes of the component's state and all the time from the
\* first of them to the last.
WriterLockHeldThroughout ==
    cur.op = "threads" =>
        \A t \in 1..MaxThreads :
            LET m == cur.comp[t]
                ahead == \E i \in 1..Len(cur.prog[t]) :
                            cur.prog[t][i][1] \in {"Read", "Write"} /\ cur.prog[t][i][2] = m
                atAccess == /\ cur.prog[t] # <<>>
                            /\ Head(cur.prog[t])[1] \in {"Read", "Write"}
                            /\ Head(cur.prog[t])[2] = m
            IN (cur.mutating[t] /\ ahead /\ (atAccess \/ cur.accessed[t])) =>
                   /\ cur.writer[m] = t
                   /\ \A u \in (1..MaxThreads) \ {t} :
                          ~(cur.mutating[u] /\ cur.comp[u] = m /\ cur.accessed[u]
                            /\ \E i \in 1..Len(cur.prog[u]) :
                                  cur.prog[u][i][1] \in {"Read", "Write"}
                                  /\ cur.prog[u][i][2] = m)

\* C37: HydrateBatch hydrates its entries in list order, one at a time: when
\* it begins the journal row of its second entry the row of the first is
\* synced or rolled_back, and no caller has begun a journal row in between.
BatchIsNotInterleaved ==
    cur.op = "threads" =>
        \A t \in 1..MaxThreads :
            (cur.name[t] = "HydrateBatch" /\ Len(cur.ids[t]) = 2) =>
                /\ journal[cur.ids[t][1]].state \in {"synced", "rolled_back"}
                /\ journal[cur.ids[t][1]].payload = 1
                /\ journal[cur.ids[t][2]].payload = 2
                /\ cur.ids[t][2] = cur.ids[t][1] + 1

\* C39: no deadlock: as long as a call is running, some running call can take
\* its next step.
NoDeadlock ==
    cur.op = "threads" =>
        ((\E t \in 1..MaxThreads : cur.prog[t] # <<>>) => (\E t \in 1..MaxThreads : CanStep(t)))

\* C38: Dehydrate puts the placeholder in place before it removes the real
\* file, so an entry path that held the real file or the placeholder before a
\* Dehydrate holds one of them after it; and when Dehydrate reports success
\* with hydration_state placeholder, the placeholder exists and the real file
\* is absent.
DehydrateLeavesPlaceholderOnly ==
    [][result'.op = "Dehydrate" =>
          LET e == result'.arg
          IN /\ (realFile[e] # "absent" \/ placeholderFile[e])
                   => (realFile'[e] # "absent" \/ placeholderFile'[e])
             /\ (result'.ok /\ getHydrationState(hydration', e) = "placeholder")
                   => (placeholderFile'[e] /\ realFile'[e] = "absent")]_vars

\* C40: a Restore that directly follows the MoveToTrash of the same entry
\* returns every version of the entry to the state it had before the
\* MoveToTrash: a version that was superseded is superseded again (stated for
\* an entry that had one active version).
TrashThenRestoreKeepsVersionStates ==
    (/\ result.op = "Restore" /\ result.ok /\ result.seen # <<>>
     /\ Cardinality({v \in result.seen[1] : v[1] = result.seen[2]}) = 1) =>
        \A n \in VerNums :
            versions[<<result.seen[2], n>>] = result.seen[3][<<result.seen[2], n>>]

\* ------------------------------------------------------ the whole program
Next ==
    \/ NextHydrate
    \/ NextExecute
    \/ NextPurge
    \/ NextRemove
    \/ NextVersions
    \/ NextJournal
    \/ NextDehydrate
    \/ NextRoundTrip
    \/ NextCancel
    \/ NextSnapshots
    \/ NextCache
    \/ NextGet
    \/ NextPlanner
    \/ NextAccess
    \/ GetEntryHealth
    \/ NextLocks

Spec == Init /\ [][Next]_vars

====
